---- MODULE Spec2Model ----
(***************************************************************************)
(* Field extraction and reconciliation engine of AutoAgile.                *)
(*                                                                         *)
(* FieldExtractionService (policy engine, AI extractor, pattern extractor, *)
(* suggestion ranker) modelled as a state machine.  Strings are sequences  *)
(* of one-character strings so that toLowerCase, includes and the regular  *)
(* expressions of the source are computed, not assumed.  Confidences and   *)
(* thresholds are in hundredths (0.8 is 80).                               *)
(***************************************************************************)
EXTENDS Integers, Sequences, FiniteSets, TLC

(***************************************************************************)
(* Bounds of the model                                                     *)
(***************************************************************************)
MaxFields == 2

MaxConfigs == 1

(***************************************************************************)
(* JavaScript values                                                       *)
(***************************************************************************)
Null == [t |-> "null"]

Undefined == [t |-> "undef"]

Str(s) == [t |-> "str", s |-> s]

Num(n) == [t |-> "num", n |-> n]

Arr(a) == [t |-> "arr", a |-> a]

Bool(b) == [t |-> "bool", b |-> b]

\* a JiraFieldOption {name?, value?}
Option(name, value) == [t |-> "obj", name |-> name, value |-> value]

IsStr(v) == v.t = "str"

(***************************************************************************)
(* String primitives                                                       *)
(***************************************************************************)
LowerChars == <<"a","b","c","d","e","f","g","h","i","j","k","l","m","n","o","p","q","r","s","t","u","v","w","x","y","z">>

DigitChars == <<"0","1","2","3","4","5","6","7","8","9">>

IsUpper(c) == c \in {"A","B","C","D","E","F","G","H","I","J","K","L","M","N","O","P","Q","R","S","T","U","V","W","X","Y","Z"}

IsLower(c) == c \in {"a","b","c","d","e","f","g","h","i","j","k","l","m","n","o","p","q","r","s","t","u","v","w","x","y","z"}

IsDigit(c) == c \in {"0","1","2","3","4","5","6","7","8","9"}

IsSpace(c) == c = " "

\* \w of the regular expressions
IsWordChar(c) == IsUpper(c) \/ IsLower(c) \/ IsDigit(c) \/ c = "_"

\* position of an upper-case letter in the alphabet
UpperIndex == ("A" :> 1) @@ ("B" :> 2) @@ ("C" :> 3) @@ ("D" :> 4) @@ ("E" :> 5) @@ ("F" :> 6) @@ ("G" :> 7)
              @@ ("H" :> 8) @@ ("I" :> 9) @@ ("J" :> 10) @@ ("K" :> 11) @@ ("L" :> 12) @@ ("M" :> 13)
              @@ ("N" :> 14) @@ ("O" :> 15) @@ ("P" :> 16) @@ ("Q" :> 17) @@ ("R" :> 18) @@ ("S" :> 19)
              @@ ("T" :> 20) @@ ("U" :> 21) @@ ("V" :> 22) @@ ("W" :> 23) @@ ("X" :> 24) @@ ("Y" :> 25)
              @@ ("Z" :> 26)

LowerChar(c) == IF IsUpper(c) THEN LowerChars[UpperIndex[c]] ELSE c

\* the function f on 1..n as a tuple
Tuple(f, n) == SubSeq(f, 1, n)

toLowerCase(s) == Tuple([i \in 1..Len(s) |-> LowerChar(s[i])], Len(s))

\* s.includes(sub)
includes(s, sub) == \E i \in 0..(Len(s) - Len(sub)) : \A k \in 1..Len(sub) : s[i + k] = sub[k]

\* s has sub at position i (1-based) whatever the case, for the /i patterns;
\* sub is lower case
LooksAtI(s, i, sub) == i >= 1 /\ i + Len(sub) - 1 <= Len(s) /\ \A k \in 1..Len(sub) : LowerChar(s[i + k - 1]) = sub[k]

\* \b between positions i-1 and i
Boundary(s, i) == LET before == i > 1 /\ i - 1 <= Len(s) /\ IsWordChar(s[i - 1])
                       after == i >= 1 /\ i <= Len(s) /\ IsWordChar(s[i])
                  IN before # after

\* least element of a non-empty set of positions (leftmost match)
Least(S) == CHOOSE i \in S : \A j \in S : i <= j

Greatest(S) == CHOOSE i \in S : \A j \in S : i >= j

\* end (exclusive) of the run of characters satisfying P that starts at i:
\* greedy \s*, \d+ and [A-Z]+
SkipWhile(s, i, P(_)) ==
    LET first(stops) == IF stops = {} THEN Len(s) + 1 ELSE Least(stops)
    IN IF i > Len(s) THEN i ELSE first({j \in i..Len(s) : ~P(s[j])})

\* parseInt of a digit string
RECURSIVE parseInt(_)
parseInt(s) == LET digit(c) == (CHOOSE d \in 1..10 : DigitChars[d] = c) - 1
               IN IF Len(s) = 0 THEN 0 ELSE 10 * parseInt(SubSeq(s, 1, Len(s) - 1)) + digit(s[Len(s)])

\* Number.prototype.toString of a natural number
RECURSIVE toString(_)
toString(n) == IF n < 10 THEN <<DigitChars[n + 1]>> ELSE Append(toString(n \div 10), DigitChars[(n % 10) + 1])

\* the elements of the finite set S of integers in increasing order
Ascending(S) == Tuple([k \in 1..Cardinality(S) |-> CHOOSE x \in S : Cardinality({y \in S : y < x}) = k - 1], Cardinality(S))

\* the sequences over S of length at most n
SeqsUpTo(S, n) == UNION {[1..m -> S] : m \in 0..n}

\* the maximal runs of characters satisfying P, in order
Runs(s, P(_)) ==
    LET from(starts) == Tuple([k \in 1..Len(starts) |-> SubSeq(s, starts[k], SkipWhile(s, starts[k], P) - 1)], Len(starts))
    IN from(Ascending({j \in 1..Len(s) : P(s[j]) /\ (j = 1 \/ ~P(s[j - 1]))}))

\* Array.prototype.find: index of the first element satisfying P, 0 if none
FirstIndex(seq, P(_)) ==
    LET first(hits) == IF hits = {} THEN 0 ELSE Least(hits)
    IN first({i \in 1..Len(seq) : P(seq[i])})

\* String.prototype.match without /g: the attempt At(i) at the least start
\* position i of from..to where it succeeds (is not <<>>), or <<>>
Leftmost(from, to, At(_)) ==
    LET first(ms) == IF ms = {} THEN <<>> ELSE (CHOOSE m \in ms : \A n \in ms : m[1] <= n[1])[2]
    IN first({m \in {<<i, At(i)>> : i \in from..to} : m[2] # <<>>})

(***************************************************************************)
(* Pattern Extractor (extractWithPatterns and its helpers)                 *)
(***************************************************************************)
S_customfield_26360 == <<"c","u","s","t","o","m","f","i","e","l","d","_","2","6","3","6","0">>

S_quarter == <<"q","u","a","r","t","e","r">>

\* the alternatives of the priority regular expression
PriorityVocabulary == {<<"h","i","g","h","e","s","t">>, <<"h","i","g","h">>, <<"m","e","d","i","u","m">>, <<"l","o","w">>, <<"l","o","w","e","s","t">>, <<"c","r","i","t","i","c","a","l">>, <<"m","a","j","o","r">>, <<"m","i","n","o","r">>, <<"t","r","i","v","i","a","l">>}

\* priorityMap of mapPriorityValue: the synonym lists, in order
priorityMap(p) == IF p = <<"h","i","g","h","e","s","t">> THEN <<<<"h","i","g","h","e","s","t">>, <<"c","r","i","t","i","c","a","l">>, <<"1">>>>
                  ELSE IF p = <<"h","i","g","h">> THEN <<<<"h","i","g","h">>, <<"m","a","j","o","r">>, <<"2">>>>
                  ELSE IF p = <<"m","e","d","i","u","m">> THEN <<<<"m","e","d","i","u","m">>, <<"n","o","r","m","a","l">>, <<"3">>>>
                  ELSE IF p = <<"l","o","w">> THEN <<<<"l","o","w">>, <<"m","i","n","o","r">>, <<"4">>>>
                  ELSE IF p = <<"l","o","w","e","s","t">> THEN <<<<"l","o","w","e","s","t">>, <<"t","r","i","v","i","a","l">>, <<"5">>>>
                  ELSE <<p>>

\* allowedValues.find(v => v.toLowerCase().includes(mapping)); an element
\* without toLowerCase (an option object) reached by the scan throws
findIncluding(allowed, mapping) ==
    LET stop(v) == ~IsStr(v) \/ includes(toLowerCase(v.s), toLowerCase(mapping))
        found(j) == IF j = 0 THEN [k |-> "none"]
                    ELSE IF ~IsStr(allowed[j]) THEN [k |-> "throw"]
                    ELSE [k |-> "value", value |-> allowed[j]]
    IN found(FirstIndex(allowed, stop))

\* mapPriorityValue (lines 625-646): the loop over mappings and the final return
mapPriorityValue(priority, allowedValues) ==
    LET loop(allowed, mappings) ==
            LET found(mapping) == findIncluding(allowed, mapping).k # "none"
                first(m) == IF m = 0 THEN [k |-> "value", value |-> Str(priority)]
                            ELSE findIncluding(allowed, mappings[m])
            IN first(FirstIndex(mappings, found))
    IN IF allowedValues.t = "undef" THEN [k |-> "value", value |-> Str(priority)]
       ELSE loop(allowedValues.a, priorityMap(toLowerCase(priority)))

\* first word of s that belongs to vocabulary: the match of /\b(w1|w2|...)\b/
FirstWordIn(s, vocabulary) ==
    LET hit(w) == w \in vocabulary
        first(ws) == LET at(i) == IF i = 0 THEN <<>> ELSE ws[i] IN at(FirstIndex(ws, hit))
    IN first(Runs(s, IsWordChar))

\* allowedValues?.includes(v) for a string v
allowedIncludes(allowedValues, v) ==
    allowedValues.t = "arr" /\ \E j \in 1..Len(allowedValues.a) : allowedValues.a[j] = Str(v)

\* One attempt of quarterPatterns[p] at start position i: the captures
\* <<quarter, year>> (year is <<>> when the pattern has no second group),
\* or <<>> when the pattern does not match at i.
quarterPatternAt(p, s, i) ==
    LET IsQuarterDigit(c) == c \in {"1", "2", "3", "4"}
        FourDigitsAt(j) == j + 3 <= Len(s) /\ \A d \in 0..3 : IsDigit(s[j + d])
        yearAt(quarter, y) == IF FourDigitsAt(y) /\ Boundary(s, y + 4) THEN <<quarter, SubSeq(s, y, y + 3)>> ELSE <<>>
        letterQ == i + 1 <= Len(s) /\ LowerChar(s[i]) = "q" /\ IsQuarterDigit(s[i + 1])
        digitAt(j) == j <= Len(s) /\ IsQuarterDigit(s[j])
        \* the word quarter at j, then the year
        quarterThenYear(quarter, j) == IF LooksAtI(s, j, S_quarter) THEN yearAt(quarter, SkipWhile(s, j + 7, IsSpace)) ELSE <<>>
        \* quarter at i, a digit at j, then the year
        quarterDigitYear(j) == IF LooksAtI(s, i, S_quarter) /\ digitAt(j) THEN yearAt(SubSeq(s, j, j), SkipWhile(s, j + 1, IsSpace)) ELSE <<>>
        quarterDigit(j) == IF LooksAtI(s, i, S_quarter) /\ digitAt(j) /\ Boundary(s, j + 1) THEN <<SubSeq(s, j, j), <<>>>> ELSE <<>>
        worded(ws) == IF ws = {} THEN <<>>
                      ELSE LET word(w) == quarterThenYear(SubSeq(s, i, i + Len(w) - 1), SkipWhile(s, i + Len(w), IsSpace))
                           IN word(CHOOSE x \in ws : TRUE)
    IN IF ~Boundary(s, i) THEN <<>>
       ELSE IF p = 1 THEN IF letterQ THEN yearAt(SubSeq(s, i, i + 1), SkipWhile(s, i + 2, IsSpace)) ELSE <<>>
       ELSE IF p = 2 THEN quarterDigitYear(SkipWhile(s, i + 7, IsSpace))
       ELSE IF p = 3 THEN IF i + 2 <= Len(s) /\ IsQuarterDigit(s[i]) /\ toLowerCase(SubSeq(s, i + 1, i + 2)) \in {<<"s","t">>, <<"n","d">>, <<"r","d">>, <<"t","h">>}
                          THEN quarterThenYear(SubSeq(s, i, i), SkipWhile(s, i + 3, IsSpace)) ELSE <<>>
       ELSE IF p = 4 THEN worded({w \in {<<"f","i","r","s","t">>, <<"s","e","c","o","n","d">>, <<"t","h","i","r","d">>, <<"f","o","u","r","t","h">>} : LooksAtI(s, i, w)})
       ELSE IF p = 5 THEN IF letterQ /\ Boundary(s, i + 2) THEN <<SubSeq(s, i, i + 1), <<>>>> ELSE <<>>
       ELSE quarterDigit(SkipWhile(s, i + 7, IsSpace))

\* the quarter value built from one match (lines 439-453), <<>> for no match
quarterValueOf(match, now) ==
    IF match = <<>> THEN <<>>
    ELSE LET q1 == IF match[1] = <<"f","i","r","s","t">> THEN <<"1">>
                   ELSE IF match[1] = <<"s","e","c","o","n","d">> THEN <<"2">>
                   ELSE IF match[1] = <<"t","h","i","r","d">> THEN <<"3">>
                   ELSE IF match[1] = <<"f","o","u","r","t","h">> THEN <<"4">>
                   ELSE match[1]
             q2 == IF Len(q1) > 0 /\ LowerChar(q1[1]) = "q" THEN SubSeq(q1, 2, Len(q1)) ELSE q1
         IN <<"Q">> \o q2 \o <<" ">> \o (IF match[2] # <<>> THEN match[2] ELSE toString(now.year))

\* the loop over quarterPatterns (lines 436-462), each tried by
\* description.match at its leftmost match: the accepted value or <<>>
quarterLoop(s, allowedValues, now) ==
    LET at(p) == LET try(i) == quarterPatternAt(p, s, i)
                     taken(v) == IF v # <<>> /\ allowedIncludes(allowedValues, v) THEN v ELSE <<>>
                 IN taken(quarterValueOf(Leftmost(1, Len(s), try), now))
    IN Leftmost(1, 6, at)

\* description.match(/\b(\d{4})\b/): the first word of exactly four digits
yearMatch(s) ==
    LET isYear(w) == Len(w) = 4 /\ \A d \in 1..4 : IsDigit(w[d])
        first(ws) == LET at(i) == IF i = 0 THEN <<>> ELSE ws[i] IN at(FirstIndex(ws, isYear))
    IN first(Runs(s, IsWordChar))

\* a variant: the last fallback without the test of allowedValues
extractQuarter_unchecked(description, field, now) ==
    LET allowed(v) == allowedIncludes(field.allowedValues, v)
        inCurrentQuarter(year) == <<"Q">> \o toString((now.month + 2) \div 3) \o <<" ">> \o year
        fallback(v) == [k |-> "value", value |-> Str(v), confidence |-> 40]
        byYear(ym) == IF ym # <<>> /\ allowed(inCurrentQuarter(ym))
                      THEN [k |-> "value", value |-> Str(inCurrentQuarter(ym)), confidence |-> 60]
                      ELSE fallback(inCurrentQuarter(toString(now.year)))
        explicit(v) == IF v # <<>> THEN [k |-> "value", value |-> Str(v), confidence |-> 80]
                       ELSE byYear(yearMatch(description))
    IN explicit(quarterLoop(description, field.allowedValues, now))

\* the quarter branch of extractWithPatterns (lines 425-487)
extractQuarter(description, field, now) ==
    LET allowed(v) == allowedIncludes(field.allowedValues, v)
        \* Math.ceil((getMonth() + 1) / 3)
        inCurrentQuarter(year) == <<"Q">> \o toString((now.month + 2) \div 3) \o <<" ">> \o year
        fallback(v) == IF allowed(v) THEN [k |-> "value", value |-> Str(v), confidence |-> 40] ELSE [k |-> "none"]
        byYear(ym) == IF ym # <<>> /\ allowed(inCurrentQuarter(ym))
                      THEN [k |-> "value", value |-> Str(inCurrentQuarter(ym)), confidence |-> 60]
                      ELSE fallback(inCurrentQuarter(toString(now.year)))
        explicit(v) == IF v # <<>> THEN [k |-> "value", value |-> Str(v), confidence |-> 80]
                       ELSE byYear(yearMatch(description))
    IN explicit(quarterLoop(description, field.allowedValues, now))

\* extractInternalExternalValue (lines 768-796)
extractInternalExternalValue(description) ==
    LET internalWords == {<<"i","n","t","e","r","n","a","l">>, <<"p","r","i","v","a","t","e">>, <<"c","o","n","f","i","d","e","n","t","i","a","l">>, <<"c","o","m","p","a","n","y">>, <<"t","e","a","m">>, <<"s","t","a","f","f">>}
        externalWords == {<<"e","x","t","e","r","n","a","l">>, <<"p","u","b","l","i","c">>, <<"c","u","s","t","o","m","e","r">>, <<"c","l","i","e","n","t">>, <<"v","i","s","i","b","l","e">>, <<"r","o","a","d","m","a","p">>, <<"s","h","o","w","c","a","s","e">>}
        entry(values) == IF Len(values) > 0
                         THEN <<[fieldId |-> S_customfield_26360, value |-> Arr(values), confidence |-> 80, extractionMethod |-> "pattern"]>>
                         ELSE <<>>
        among(words) == LET has(vocabulary) == \E k \in 1..Len(words) : words[k] \in vocabulary
                        IN entry((IF has(internalWords) THEN <<Str(<<"I","n","t","e","r","n","a","l">>)>> ELSE <<>>)
                                 \o (IF has(externalWords) THEN <<Str(<<"E","x","t","e","r","n","a","l">>)>> ELSE <<>>))
    IN among(Runs(toLowerCase(description), IsWordChar))

\* extractRoadmapValue (lines 798-814)
extractRoadmapValue(description) ==
    LET entry(roadmapMatch) == IF roadmapMatch # <<>>
                               THEN <<[fieldId |-> S_customfield_26360, value |-> Str(roadmapMatch), confidence |-> 80, extractionMethod |-> "pattern"]>>
                               ELSE <<>>
    IN entry(FirstWordIn(toLowerCase(description), {<<"r","o","a","d","m","a","p">>, <<"p","u","b","l","i","c">>, <<"e","x","t","e","r","n","a","l">>, <<"v","i","s","i","b","l","e">>, <<"s","h","o","w">>}))

\* s.match(/\b(\d+)\s*(?:story\s*)?points?\b/i): the captured digits of the
\* leftmost match, or <<>>; at(i) is one attempt at position i
pointsMatch(s) ==
    LET at(i) ==
            LET word(d, b) == IF LooksAtI(s, b, <<"p","o","i","n","t">>)
                                 /\ (Boundary(s, b + 5) \/ (b + 5 <= Len(s) /\ LowerChar(s[b + 5]) = "s" /\ Boundary(s, b + 6)))
                              THEN SubSeq(s, i, d - 1) ELSE <<>>
                story(d, a, b) == IF LooksAtI(s, a, <<"s","t","o","r","y">>) /\ LooksAtI(s, b, <<"p","o","i","n","t">>)
                                  THEN word(d, b) ELSE word(d, a)
                spaced(d, a) == story(d, a, SkipWhile(s, a + 5, IsSpace))
                digits(d) == IF Boundary(s, i) /\ d > i THEN spaced(d, SkipWhile(s, d, IsSpace)) ELSE <<>>
            IN digits(SkipWhile(s, i, IsDigit))
    IN Leftmost(1, Len(s), at)

\* s.match(/\b([A-Z]+-\d+)\b/): the token of the leftmost match, or <<>>;
\* at(i) is one attempt at position i
epicMatch(s) ==
    LET at(i) ==
            LET number(k, d) == IF d > k + 1 /\ Boundary(s, d) THEN SubSeq(s, i, d - 1) ELSE <<>>
                letters(k) == IF Boundary(s, i) /\ k > i /\ k <= Len(s) /\ s[k] = "-" THEN number(k, SkipWhile(s, k + 1, IsDigit)) ELSE <<>>
            IN letters(SkipWhile(s, i, IsUpper))
    IN Leftmost(1, Len(s), at)

\* the component branch (lines 509-520)
extractComponent(lowerDescription, field) ==
    IF field.allowedValues.t = "undef" THEN [k |-> "none"]
    ELSE LET componentName(allowedValue) ==
                 IF IsStr(allowedValue) THEN toLowerCase(allowedValue.s)
                 ELSE IF allowedValue.value.t = "str" THEN toLowerCase(allowedValue.value.s)
                 ELSE <<>>
             hit(v) == LET named(name) == name # <<>> /\ includes(lowerDescription, name) IN named(componentName(v))
             found(i) == IF i = 0 THEN [k |-> "none"] ELSE [k |-> "value", value |-> field.allowedValues.a[i], confidence |-> 70]
         IN found(FirstIndex(field.allowedValues.a, hit))

\* commonWords of isCommonWord (lines 759-763)
commonWords == {<<"t","h","e">>, <<"a","n","d">>, <<"f","o","r">>, <<"a","r","e">>, <<"b","u","t">>, <<"n","o","t">>, <<"y","o","u">>, <<"a","l","l">>, <<"c","a","n">>, <<"h","a","d">>, <<"h","e","r">>, <<"w","a","s">>, <<"o","n","e">>, <<"o","u","r">>, <<"o","u","t">>, <<"d","a","y">>, <<"g","e","t">>, <<"h","a","s">>, <<"h","i","m">>, <<"h","i","s">>, <<"h","o","w">>, <<"i","t","s">>, <<"m","a","y">>, <<"n","e","w">>, <<"n","o","w">>, <<"o","l","d">>, <<"s","e","e">>, <<"t","w","o">>, <<"w","a","y">>, <<"w","h","o">>, <<"b","o","y">>, <<"d","i","d">>, <<"m","a","n">>, <<"e","n","d">>, <<"w","h","y">>, <<"l","e","t">>, <<"p","u","t">>, <<"s","a","y">>, <<"s","h","e">>, <<"t","o","o">>, <<"u","s","e">>, <<"t","h","a","t">>, <<"w","i","t","h">>, <<"h","a","v","e">>, <<"t","h","i","s">>, <<"w","i","l","l">>, <<"y","o","u","r">>, <<"f","r","o","m">>, <<"t","h","e","y">>, <<"k","n","o","w">>, <<"w","a","n","t">>, <<"b","e","e","n">>, <<"g","o","o","d">>, <<"m","u","c","h">>, <<"s","o","m","e">>, <<"t","i","m","e">>, <<"v","e","r","y">>, <<"w","h","e","n">>, <<"c","o","m","e">>, <<"h","e","r","e">>, <<"j","u","s","t">>, <<"l","i","k","e">>, <<"l","o","n","g">>, <<"m","a","k","e">>, <<"m","a","n","y">>, <<"o","v","e","r">>, <<"s","u","c","h">>, <<"t","a","k","e">>, <<"t","h","a","n">>, <<"t","h","e","m">>, <<"w","e","l","l">>, <<"w","e","r","e">>, <<"w","h","a","t">>, <<"w","o","u","l","d">>, <<"t","h","e","r","e">>, <<"c","o","u","l","d">>, <<"o","t","h","e","r">>, <<"a","f","t","e","r">>, <<"f","i","r","s","t">>, <<"n","e","v","e","r">>, <<"t","h","e","s","e">>, <<"t","h","i","n","k">>, <<"w","h","e","r","e">>, <<"b","e","i","n","g">>, <<"e","v","e","r","y">>, <<"g","r","e","a","t">>, <<"m","i","g","h","t">>, <<"s","h","a","l","l">>, <<"s","t","i","l","l">>, <<"t","h","o","s","e">>, <<"u","n","d","e","r">>, <<"w","h","i","l","e">>, <<"y","e","a","r","s">>, <<"b","e","f","o","r","e">>, <<"s","h","o","u","l","d">>, <<"t","h","r","o","u","g","h">>, <<"s","y","s","t","e","m">>, <<"p","r","o","c","e","s","s">>, <<"p","r","o","j","e","c","t">>, <<"s","e","r","v","i","c","e">>, <<"f","e","a","t","u","r","e">>, <<"d","e","s","i","g","n">>, <<"d","e","v","e","l","o","p","m","e","n","t">>, <<"i","m","p","l","e","m","e","n","t","a","t","i","o","n">>, <<"m","a","n","a","g","e","m","e","n","t">>, <<"a","p","p","l","i","c","a","t","i","o","n">>, <<"s","o","l","u","t","i","o","n">>}

isCommonWord(word) == toLowerCase(word) \in commonWords

IsAlnum(c) == IsUpper(c) \/ IsLower(c) \/ IsDigit(c)

IsLabelChar(c) == IsAlnum(c) \/ c = "_" \/ c = "-"

\* One attempt of labelPatterns[p] at position i: <<from, to, end>> where
\* from..to is capture group 1 and end is the first position after the
\* match, or <<>> when the pattern does not match at i.
labelPatternAt(p, s, i) ==
    LET isLetter(c) == IsUpper(c) \/ IsLower(c)
        tail(c) == IsLower(c) \/ IsDigit(c) \/ c = "-"
        sep(c) == IsSpace(c) \/ c = ":"
        \* the longest alternative that ends at a word boundary
        longest(from, ends) == IF ends = {} THEN <<>> ELSE <<from, Greatest(ends) - 1, Greatest(ends)>>
        \* /\b(20\d{2}[qQ]\d[a-zA-Z]*)\b/g
        dated(e) == IF Boundary(s, i) /\ i + 5 <= Len(s) /\ s[i] = "2" /\ s[i + 1] = "0"
                       /\ IsDigit(s[i + 2]) /\ IsDigit(s[i + 3]) /\ LowerChar(s[i + 4]) = "q"
                       /\ IsDigit(s[i + 5]) /\ Boundary(s, e)
                    THEN <<i, e - 1, e>> ELSE <<>>
        \* /\b([a-z]+-[a-z0-9-]+)\b/g
        hyphenEnds(k, m) == longest(i, {e \in (k + 2)..m : Boundary(s, e)})
        hyphenated(k) == IF Boundary(s, i) /\ k > i /\ k <= Len(s) /\ s[k] = "-"
                         THEN hyphenEnds(k, SkipWhile(s, k + 1, tail)) ELSE <<>>
        \* /(?:label|tag|#)\s*[:\s]*([a-zA-Z0-9_-]+)/gi
        captured(c1, e) == IF e > c1 THEN <<c1, e - 1, e>> ELSE <<>>
        fromCapture(c1) == captured(c1, SkipWhile(s, c1, IsLabelChar))
        tagged(k) == IF k > 0 THEN fromCapture(SkipWhile(s, k, sep)) ELSE <<>>
        \* /\b([a-zA-Z0-9]{3,}(?:[a-zA-Z0-9_-]*[a-zA-Z0-9])?)\b/g
        wordEnds(n, m) == IF Boundary(s, i) /\ n - i >= 3
                          THEN longest(i, {e \in n..m : (e = n \/ IsAlnum(s[e - 1])) /\ Boundary(s, e)}) ELSE <<>>
    IN IF p = 1 THEN dated(SkipWhile(s, i + 6, isLetter))
       ELSE IF p = 2 THEN hyphenated(SkipWhile(s, i, IsLower))
       ELSE IF p = 3 THEN tagged(IF LooksAtI(s, i, <<"l","a","b","e","l">>) THEN i + 5
                                 ELSE IF LooksAtI(s, i, <<"t","a","g">>) THEN i + 3
                                 ELSE IF LooksAtI(s, i, <<"#">>) THEN i + 1
                                 ELSE 0)
       ELSE wordEnds(SkipWhile(s, i, IsAlnum), SkipWhile(s, i, IsLabelChar))

\* [...description.matchAll(labelPatterns[p])] from position from on: the
\* captured labels in order
RECURSIVE labelMatches(_, _, _)
labelMatches(p, s, from) ==
    LET at(i) == labelPatternAt(p, s, i)
        next(m) == IF m = <<>> THEN <<>> ELSE <<SubSeq(s, m[1], m[2])>> \o labelMatches(p, s, m[3])
    IN next(Leftmost(from, Len(s), at))

\* extractedLabels after adding the labels of seq from index j on (a JS Set
\* keeps insertion order)
RECURSIVE addLabels(_, _, _)
addLabels(labels, seq, j) ==
    IF j > Len(seq) THEN labels
    ELSE LET keep(label) == Len(label) > 0 /\ ~isCommonWord(label) /\ Len(label) >= 3
                            /\ ~\E x \in 1..Len(labels) : labels[x] = Str(toLowerCase(label))
         IN addLabels(IF keep(seq[j]) THEN Append(labels, Str(toLowerCase(seq[j]))) ELSE labels, seq, j + 1)

\* the labels of all four patterns, in the order of the patterns (lines 542-555)
RECURSIVE labelsUpTo(_, _)
labelsUpTo(p, description) ==
    IF p = 0 THEN <<>> ELSE addLabels(labelsUpTo(p - 1, description), labelMatches(p, description, 1), 1)

\* the labels branch (lines 532-564)
extractLabels(description) ==
    LET result(labels) == IF Len(labels) > 0 THEN [k |-> "value", value |-> Arr(labels), confidence |-> 70] ELSE [k |-> "none"]
    IN result(labelsUpTo(4, description))

\* The body of the loop of extractWithPatterns for one field (lines 411-564):
\*   [k |-> "none"]    no value extracted (extractedValue stays null)
\*   [k |-> "value"]   extractedValue and confidence
\*   [k |-> "throw"]   an exception leaves extractWithPatterns
\*   [k |-> "return"]  extractWithPatterns returns out at once
patternForField(description, field, now) ==
    LET mapped(m) == IF m.k = "throw" THEN [k |-> "throw"] ELSE [k |-> "value", value |-> m.value, confidence |-> 80]
        priority(priorityMatch) == IF priorityMatch = <<>> THEN [k |-> "none"]
                                   ELSE mapped(mapPriorityValue(priorityMatch, field.allowedValues))
        points(m) == IF m # <<>> THEN [k |-> "value", value |-> Num(parseInt(m)), confidence |-> 90] ELSE [k |-> "none"]
        epic(m) == IF m # <<>> THEN [k |-> "value", value |-> Str(m), confidence |-> 80] ELSE [k |-> "none"]
        branch(fieldName, lowerDescription) ==
            IF includes(fieldName, <<"p","r","i","o","r","i","t","y">>) THEN
                priority(FirstWordIn(lowerDescription, PriorityVocabulary))
            ELSE IF includes(fieldName, S_quarter) \/ field.id = <<"c","u","s","t","o","m","f","i","e","l","d","_","2","6","3","6","2">> THEN
                extractQuarter(description, field, now)
            ELSE IF includes(fieldName, <<"r","o","a","d","m","a","p">>) \/ includes(fieldName, <<"i","n","c","l","u","d","e">>) \/ field.id = S_customfield_26360 THEN
                IF field.id = S_customfield_26360
                THEN [k |-> "return", out |-> extractInternalExternalValue(description)]
                ELSE [k |-> "return", out |-> extractRoadmapValue(description)]
            ELSE IF includes(fieldName, <<"s","t","o","r","y">>) /\ includes(fieldName, <<"p","o","i","n","t">>) THEN
                points(pointsMatch(lowerDescription))
            ELSE IF includes(fieldName, <<"c","o","m","p","o","n","e","n","t">>) THEN
                extractComponent(lowerDescription, field)
            ELSE IF includes(fieldName, <<"e","p","i","c">>) THEN
                epic(epicMatch(lowerDescription))
            ELSE IF includes(fieldName, <<"l","a","b","e","l">>) THEN
                extractLabels(description)
            ELSE [k |-> "none"]
    IN branch(toLowerCase(field.name), toLowerCase(description))

\* the loop of extractWithPatterns over the results r of the fields: it ends
\* at the first field whose branch throws or returns (lines 410-576)
patternLoop(jiraFields, r) ==
    LET entry(j) == [fieldId |-> jiraFields[j].id, value |-> r[j].value,
                     confidence |-> r[j].confidence, extractionMethod |-> "pattern"]
        collect(found) == [threw |-> FALSE, out |-> [k \in 1..Len(found) |-> entry(found[k])]]
        upTo(stops) == IF stops # {} /\ r[Least(stops)].k = "throw" THEN [threw |-> TRUE, out |-> <<>>]
                       ELSE IF stops # {} THEN [threw |-> FALSE, out |-> r[Least(stops)].out]
                       ELSE collect(Ascending({j \in 1..Len(jiraFields) : r[j].k = "value"}))
    IN upTo({j \in 1..Len(jiraFields) : r[j].k \in {"throw", "return"}})

\* extractWithPatterns (lines 406-577); now is the reading of the clock
extractWithPatterns(description, jiraFields, now) ==
    patternLoop(jiraFields, Tuple([j \in 1..Len(jiraFields) |-> patternForField(description, jiraFields[j], now)], Len(jiraFields)))

(***************************************************************************)
(* Suggestion Ranker (generateSuggestions, generateFieldSuggestion)        *)
(***************************************************************************)
\* value.split(/\s+/): the pieces of s between runs of white space
splitSpaces(s) ==
    LET notSpace(c) == ~IsSpace(c)
        leading == IF Len(s) = 0 \/ IsSpace(s[1]) THEN <<(<<>>)>> ELSE <<>>
        trailing == IF Len(s) > 0 /\ IsSpace(s[Len(s)]) THEN <<(<<>>)>> ELSE <<>>
    IN leading \o Runs(s, notSpace) \o trailing

\* the lower-cased text of an allowed value (line 587)
suggestionText(allowedValue) ==
    IF IsStr(allowedValue) THEN toLowerCase(allowedValue.s)
    ELSE IF allowedValue.value.t = "str" /\ allowedValue.value.s # <<>> THEN toLowerCase(allowedValue.value.s)
    ELSE IF allowedValue.name.t = "str" /\ allowedValue.name.s # <<>> THEN toLowerCase(allowedValue.name.s)
    ELSE <<>>

\* the score of the lower-cased text value of one allowed value (lines 588-608)
suggestionScore(field, lowerDescription, value) ==
    LET partial(words) == 3 * Cardinality({w \in 1..Len(words) : Len(words[w]) > 2 /\ includes(lowerDescription, words[w])})
        said(word) == includes(lowerDescription, word)
        priority(isPriority) ==
            (IF isPriority /\ said(<<"u","r","g","e","n","t">>) /\ includes(value, <<"h","i","g","h">>) THEN 5 ELSE 0)
            + (IF isPriority /\ said(<<"i","m","p","o","r","t","a","n","t">>) /\ includes(value, <<"h","i","g","h">>) THEN 3 ELSE 0)
            + (IF isPriority /\ said(<<"l","a","t","e","r">>) /\ includes(value, <<"l","o","w">>) THEN 3 ELSE 0)
    IN (IF said(value) THEN 10 ELSE 0) + partial(splitSpaces(value))
       + priority(includes(toLowerCase(field.name), <<"p","r","i","o","r","i","t","y">>))

\* a variant: the sort in ascending order of score
sortByScore_ascending(seq) ==
    LET rank(j) == Cardinality({x \in 1..Len(seq) : seq[x].score < seq[j].score \/ (seq[x].score = seq[j].score /\ x < j)}) + 1
    IN [r \in 1..Len(seq) |-> seq[CHOOSE j \in 1..Len(seq) : rank(j) = r]]

\* Array.prototype.sort((a, b) => b.score - a.score): stable, descending
sortByScore(seq) ==
    LET rank(j) == Cardinality({x \in 1..Len(seq) : seq[x].score > seq[j].score \/ (seq[x].score = seq[j].score /\ x < j)}) + 1
    IN [r \in 1..Len(seq) |-> seq[CHOOSE j \in 1..Len(seq) : rank(j) = r]]

\* the first n elements of seq at most
slice(seq, n) == SubSeq(seq, 1, IF Len(seq) < n THEN Len(seq) ELSE n)

\* generateSuggestions (lines 579-623)
generateSuggestions(field, description) ==
    IF field.allowedValues.t = "undef" THEN <<>>
    ELSE LET scoreOf(v, lowerDescription) == [value |-> v, score |-> suggestionScore(field, lowerDescription, suggestionText(v))]
             scored(av, lowerDescription) == Tuple([j \in 1..Len(av) |-> scoreOf(av[j], lowerDescription)], Len(av))
             values(top) == [j \in 1..Len(top) |-> top[j].value]
         IN values(slice(sortByScore(SelectSeq(scored(field.allowedValues.a, toLowerCase(description)), LAMBDA e : e.score > 0)), 5))

\* Array.prototype.join(', ') of at most three elements; joinText is
\* String(v) of an allowed value
join(seq) ==
    LET joinText(v) == IF IsStr(v) THEN v.s ELSE <<"[","o","b","j","e","c","t"," ","O","b","j","e","c","t","]">>
    IN IF Len(seq) = 0 THEN <<>>
       ELSE IF Len(seq) = 1 THEN joinText(seq[1])
       ELSE IF Len(seq) = 2 THEN joinText(seq[1]) \o <<",", " ">> \o joinText(seq[2])
       ELSE joinText(seq[1]) \o <<",", " ">> \o joinText(seq[2]) \o <<",", " ">> \o joinText(seq[3])

\* generateFieldSuggestion (lines 262-265)
generateFieldSuggestion(jiraField, description) ==
    LET line(suggestions) == IF Len(suggestions) > 0
                             THEN <<"C","o","n","s","i","d","e","r",":"," ">> \o join(slice(suggestions, 3))
                             ELSE <<>>
    IN line(generateSuggestions(jiraField, description))

(***************************************************************************)
(* AI Extractor (extractWithAI)                                            *)
(*                                                                         *)
(* The outcome of callAIProvider and of JSON.parse is one of               *)
(*   [k |-> "error"]    the provider call throws                           *)
(*   [k |-> "empty"]    an empty or white-space response                   *)
(*   [k |-> "notjson"]  a response JSON.parse rejects                      *)
(*   [k |-> "json", result |-> v]  the parsed value v: Null, or an object  *)
(*                      [t |-> "obj", extractions |-> e]                   *)
(***************************************************************************)
\* JavaScript truthiness
truthy(v) == \/ v.t = "str" /\ v.s # <<>>
             \/ v.t = "num" /\ v.n # 0
             \/ v.t = "bool" /\ v.b
             \/ v.t \in {"arr", "obj"}

\* a variant: the filter with confidence >= 0.5
accepted_atLeast(extraction) ==
    truthy(extraction.fieldId) /\ extraction.value # Null /\ extraction.confidence.t = "num" /\ extraction.confidence.n >= 50

\* the filter of line 385
accepted(extraction) ==
    truthy(extraction.fieldId) /\ extraction.value # Null /\ extraction.confidence.t = "num" /\ extraction.confidence.n > 50

\* the loop of lines 384-393: reading a field of a null entry throws
aiLoop(extractions) ==
    LET entry(e) == [fieldId |-> IF IsStr(e.fieldId) THEN e.fieldId.s ELSE e.fieldId, value |-> e.value,
                     confidence |-> e.confidence.n, extractionMethod |-> "ai"]
        kept(keep) == [threw |-> FALSE, out |-> [k \in 1..Len(keep) |-> entry(extractions[keep[k]])]]
    IN IF \E j \in 1..Len(extractions) : extractions[j] = Null THEN [threw |-> TRUE, out |-> <<>>]
       ELSE kept(Ascending({j \in 1..Len(extractions) : accepted(extractions[j])}))

\* extractWithAI (lines 321-404) on the provider's outcome
extractWithAI(response) ==
    IF response.k = "error" THEN [threw |-> TRUE, out |-> <<>>]
    ELSE IF response.k = "empty" THEN [threw |-> TRUE, out |-> <<>>]
    ELSE IF response.k = "notjson" THEN [threw |-> FALSE, out |-> <<>>]
    ELSE IF response.result = Null THEN [threw |-> TRUE, out |-> <<>>]
    ELSE IF response.result.extractions.t = "arr" THEN aiLoop(response.result.extractions.a)
    ELSE [threw |-> FALSE, out |-> <<>>]

(***************************************************************************)
(* Extraction Policy Engine: the pure parts                                *)
(***************************************************************************)
\* fieldConfigs.find(c => c.jiraFieldId === jiraField.id) (line 58)
findConfig(configs, id) ==
    LET hit(c) == c.jiraFieldId = id
        j == FirstIndex(configs, hit)
    IN IF j = 0 THEN Undefined ELSE configs[j]

\* The outcome of one extraction: whether an exception leaves the function
\* (threw), whether one was caught and logged (caught), the extracted value
\* or Null, and whether the pattern extractor was invoked
Outcome(caught, value, patternCalled) == [threw |-> FALSE, caught |-> caught, value |-> value, patternCalled |-> patternCalled]

\* a variant: extractSingleFieldValue without its try/catch
extractSingleFieldValue_uncaught(desc, jiraField, fieldConfig, provider, key, response, clock) ==
    LET callAI == fieldConfig.extractionMethod = "ai" /\ provider /\ key
        enough(out) == Len(out) > 0 /\ out[1].confidence >= fieldConfig.confidenceThreshold
        raise(patternCalled) == [threw |-> TRUE, caught |-> FALSE, value |-> Null, patternCalled |-> patternCalled]
        try(aiExtracted, patternExtracted) ==
            IF callAI /\ aiExtracted.threw THEN raise(FALSE)
            ELSE IF callAI /\ enough(aiExtracted.out) THEN Outcome(FALSE, aiExtracted.out[1], FALSE)
            ELSE IF fieldConfig.extractionMethod \notin {"ai", "pattern"} THEN Outcome(FALSE, Null, FALSE)
            ELSE IF patternExtracted.threw THEN raise(TRUE)
            ELSE IF enough(patternExtracted.out) THEN Outcome(FALSE, patternExtracted.out[1], TRUE)
            ELSE Outcome(FALSE, Null, TRUE)
    IN try(extractWithAI(response), extractWithPatterns(desc, <<jiraField>>, clock))

\* a variant: extractSingleFieldValue returning a candidate whatever its
\* confidence
extractSingleFieldValue_anyConfidence(desc, jiraField, fieldConfig, provider, key, response, clock) ==
    LET callAI == fieldConfig.extractionMethod = "ai" /\ provider /\ key
        try(aiExtracted, patternExtracted) ==
            IF callAI /\ aiExtracted.threw THEN Outcome(TRUE, Null, FALSE)
            ELSE IF callAI /\ Len(aiExtracted.out) > 0 THEN Outcome(FALSE, aiExtracted.out[1], FALSE)
            ELSE IF fieldConfig.extractionMethod \notin {"ai", "pattern"} THEN Outcome(FALSE, Null, FALSE)
            ELSE IF patternExtracted.threw THEN Outcome(TRUE, Null, TRUE)
            ELSE IF Len(patternExtracted.out) > 0 THEN Outcome(FALSE, patternExtracted.out[1], TRUE)
            ELSE Outcome(FALSE, Null, TRUE)
    IN try(extractWithAI(response), extractWithPatterns(desc, <<jiraField>>, clock))

\* extractSingleFieldValue (lines 135-162).  response is the outcome of the
\* provider call, read only when the call is made.
extractSingleFieldValue(desc, jiraField, fieldConfig, provider, key, response, clock) ==
    LET callAI == fieldConfig.extractionMethod = "ai" /\ provider /\ key
        enough(out) == Len(out) > 0 /\ out[1].confidence >= fieldConfig.confidenceThreshold
        try(aiExtracted, patternExtracted) ==
            IF callAI /\ aiExtracted.threw THEN Outcome(TRUE, Null, FALSE)
            ELSE IF callAI /\ enough(aiExtracted.out) THEN Outcome(FALSE, aiExtracted.out[1], FALSE)
            ELSE IF fieldConfig.extractionMethod \notin {"ai", "pattern"} THEN Outcome(FALSE, Null, FALSE)
            ELSE IF patternExtracted.threw THEN Outcome(TRUE, Null, TRUE)
            ELSE IF enough(patternExtracted.out) THEN Outcome(FALSE, patternExtracted.out[1], TRUE)
            ELSE Outcome(FALSE, Null, TRUE)
    IN try(extractWithAI(response), extractWithPatterns(desc, <<jiraField>>, clock))

\* a variant: shouldAutoApplyField without the global override
shouldAutoApplyField_perFieldOnly(fieldConfig, candidate, prefs) ==
    IF fieldConfig.extractionMode = "auto-apply" THEN candidate.confidence >= fieldConfig.confidenceThreshold
    ELSE FALSE

\* a variant: shouldAutoApplyField with the comparison reversed
shouldAutoApplyField_below(fieldConfig, candidate, prefs) ==
    IF prefs.requireConfirmationForAll THEN FALSE
    ELSE IF fieldConfig.extractionMode = "auto-apply" THEN candidate.confidence <= fieldConfig.confidenceThreshold
    ELSE FALSE

\* a variant: shouldAutoApplyField treating always-confirm as auto-apply
shouldAutoApplyField_confirmAsAuto(fieldConfig, candidate, prefs) ==
    IF prefs.requireConfirmationForAll THEN FALSE
    ELSE IF fieldConfig.extractionMode \in {"auto-apply", "always-confirm"}
         THEN candidate.confidence >= fieldConfig.confidenceThreshold
    ELSE FALSE

\* shouldAutoApplyField (lines 167-188)
shouldAutoApplyField(fieldConfig, candidate, prefs) ==
    IF prefs.requireConfirmationForAll THEN FALSE
    ELSE IF fieldConfig.extractionMode = "auto-apply" THEN candidate.confidence >= fieldConfig.confidenceThreshold
    ELSE IF fieldConfig.extractionMode = "always-confirm" THEN FALSE
    ELSE IF fieldConfig.extractionMode = "manual-only" THEN FALSE
    ELSE FALSE

\* extractSingleFieldWithDefaults (lines 232-257)
extractSingleFieldWithDefaults(desc, jiraField, prefs, provider, key, response, clock) ==
    LET callAI == prefs.defaultMethod = "ai" /\ provider /\ key
        try(aiExtracted, patternExtracted) ==
            IF callAI /\ aiExtracted.threw THEN Outcome(TRUE, Null, FALSE)
            ELSE IF callAI /\ Len(aiExtracted.out) > 0 THEN Outcome(FALSE, aiExtracted.out[1], FALSE)
            ELSE IF patternExtracted.threw THEN Outcome(TRUE, Null, TRUE)
            ELSE IF Len(patternExtracted.out) > 0 THEN Outcome(FALSE, patternExtracted.out[1], TRUE)
            ELSE Outcome(FALSE, Null, TRUE)
    IN try(extractWithAI(response), extractWithPatterns(desc, <<jiraField>>, clock))

\* the ExtractionCandidate built at lines 90-96 and 210-216
makeCandidate(jiraField, extractedValue, desc) ==
    [fieldId |-> jiraField.id, value |-> extractedValue.value, confidence |-> extractedValue.confidence,
     extractionMethod |-> extractedValue.extractionMethod, suggestion |-> generateFieldSuggestion(jiraField, desc)]

\* Map.prototype.set
mapSet(m, key, v) == [x \in (DOMAIN m) \cup {key} |-> IF x = key THEN v ELSE m[x]]

\* a variant: defaultsBucket without the 0.8 floor
defaultsBucket_noFloor(extractedValue, prefs) ==
    IF extractedValue # Null /\ extractedValue.confidence >= prefs.globalConfidenceThreshold
    THEN IF prefs.requireConfirmationForAll THEN "confirmation" ELSE "auto"
    ELSE "manual"

\* The bucket a field without configuration is put in by
\* processFieldWithDefaults (lines 209-226), given the extracted value
defaultsBucket(extractedValue, prefs) ==
    IF extractedValue # Null /\ extractedValue.confidence >= prefs.globalConfidenceThreshold
    THEN IF prefs.requireConfirmationForAll \/ extractedValue.confidence < 80
         THEN "confirmation" ELSE "auto"
    ELSE "manual"

\* The bucket a configured, enabled, non-manual field is put in (lines
\* 89-112), given the extracted value
configuredBucket(extractedValue, fieldConfig, prefs) ==
    IF extractedValue # Null
    THEN IF shouldAutoApplyField(fieldConfig, extractedValue, prefs) THEN "auto" ELSE "confirmation"
    ELSE "manual"

\* the counter increments of lines 103, 106 and 111
configuredCounts(bucket) ==
    [auto |-> IF bucket = "auto" THEN 1 ELSE 0,
     confirmation |-> IF bucket = "confirmation" THEN 1 ELSE 0,
     manual |-> IF bucket = "manual" THEN 1 ELSE 0]

\* processFieldWithDefaults updates no counter (lines 193-227)
defaultsCounts(bucket) == [auto |-> 0, confirmation |-> 0, manual |-> 0]

(***************************************************************************)
(* The inputs of a run                                                     *)
(***************************************************************************)
priorityField == [id |-> <<"p","r","i","o","r","i","t","y">>, name |-> <<"P","r","i","o","r","i","t","y">>, type |-> "select", required |-> TRUE,
                  allowedValues |-> Arr(<<Str(<<"H","i","g","h","e","s","t">>), Str(<<"H","i","g","h">>), Str(<<"M","e","d","i","u","m">>), Str(<<"L","o","w">>), Str(<<"L","o","w","e","s","t">>)>>)]

componentsField == [id |-> <<"c","o","m","p","o","n","e","n","t","s">>, name |-> <<"C","o","m","p","o","n","e","n","t","/","s">>, type |-> "multiselect", required |-> FALSE,
                    allowedValues |-> Arr(<<Str(<<"F","r","o","n","t","e","n","d">>), Option(Str(<<"A","P","I">>), Str(<<"B","a","c","k","e","n","d">>))>>)]

\* a priority-like custom field whose allowed values are option objects
severityField == [id |-> <<"c","u","s","t","o","m","f","i","e","l","d","_","1","0","0","5","0">>, name |-> <<"B","u","s","i","n","e","s","s"," ","P","r","i","o","r","i","t","y">>, type |-> "select", required |-> TRUE,
                  allowedValues |-> Arr(<<Option(Str(<<"P","1">>), Undefined), Option(Str(<<"P","2">>), Undefined)>>)]

FieldPool == <<priorityField, severityField, componentsField>>

\* the elements of seq at the positions of S, in order
RECURSIVE pick(_, _)
pick(seq, S) == IF S = {} THEN <<>> ELSE <<seq[Least(S)]>> \o pick(seq, S \ {Least(S)})

\* the field lists: at most MaxFields fields of the pool, with distinct ids
\* as parseFieldMetadata and parseErrorForRequiredFields produce them
FieldLists == {pick(FieldPool, S) : S \in {T \in SUBSET (1..Len(FieldPool)) : Cardinality(T) <= MaxFields}}

Descriptions == {<<"C","r","i","t","i","c","a","l"," ","b","a","c","k","e","n","d"," ","b","u","g">>, <<"I","m","p","r","o","v","e"," ","d","o","c","s">>}

Thresholds == {50, 90}

setting(enabled, method, mode, threshold) ==
    [extractionEnabled |-> enabled, extractionMethod |-> method, extractionMode |-> mode, confidenceThreshold |-> threshold]

\* the settings of a FieldExtractionConfig: every method, mode and threshold
\* for a field that is extracted, and settings that disable extraction or
\* leave the field to the user
Settings ==
    {setting(TRUE, m, e, t) : m \in {"ai", "pattern"}, e \in {"auto-apply", "always-confirm"}, t \in Thresholds}
    \cup {setting(FALSE, "ai", "auto-apply", 50), setting(FALSE, "manual", "manual-only", 90),
          setting(TRUE, "manual", "auto-apply", 50), setting(TRUE, "ai", "manual-only", 50)}

configOf(id, s) == [jiraFieldId |-> id, extractionEnabled |-> s.extractionEnabled, extractionMethod |-> s.extractionMethod,
                    extractionMode |-> s.extractionMode, confidenceThreshold |-> s.confidenceThreshold]

\* the stored configurations: at most MaxConfigs fields of the list are configured
ConfigLists(fields) ==
    UNION {{[j \in 1..Cardinality(S) |->
                LET p == pick([x \in 1..Len(fields) |-> x], S)[j] IN configOf(fields[p].id, g[p])] :
            g \in [S -> Settings]} :
           S \in {T \in SUBSET (1..Len(fields)) : Cardinality(T) <= MaxConfigs}}

Preferences == [defaultMethod : {"ai", "pattern"}, globalConfidenceThreshold : Thresholds, requireConfirmationForAll : BOOLEAN]

Clocks == {[year |-> 2025, month |-> 8]}

\* aiProvider and apiKey: supplied (TRUE) or not
Handles == {<<TRUE, TRUE>>, <<FALSE, FALSE>>}

\* an entry of the provider's answer
aiEntry(id, confidence) == [fieldId |-> Str(id), value |-> Str(<<"f","r","o","m"," ","a","i">>), confidence |-> Num(confidence)]

\* the answers of a provider for the field id: no entry, one entry above the
\* thresholds, between them, at the filter's limit or for an id no field of the
\* list has, and
\* an entry the filter drops followed by one it keeps
AIAnswers(id) == {<<>>, <<aiEntry(id, 95)>>, <<aiEntry(id, 60)>>, <<aiEntry(id, 50)>>, <<aiEntry(<<"u","n","k","n","o","w","n">>, 95)>>,
                  <<aiEntry(id, 50), aiEntry(id, 95)>>}

\* the outcomes of one provider call for the field id
AIResponses(id) == {[k |-> "error"], [k |-> "empty"], [k |-> "notjson"],
                    [k |-> "json", result |-> Null],
                    [k |-> "json", result |-> [t |-> "obj", extractions |-> Undefined]]}
                   \cup {[k |-> "json", result |-> [t |-> "obj", extractions |-> Arr(q)]] : q \in AIAnswers(id)}

(***************************************************************************)
(* The state of one run of extractFieldValuesWithConfig                    *)
(***************************************************************************)
VARIABLES description, jiraFields, fieldConfigs, preferences, aiProvider, apiKey, now,
          pc, i, autoApplied, requiresConfirmation, manualFields, skippedFields,
          totalFields, autoAppliedCount, confirmationCount, manualCount, skippedCount,
          calls, warnings, result, call

\* what a run reads and never writes, and the harness of the pure functions
inputs == <<description, jiraFields, fieldConfigs, preferences, aiProvider, apiKey, now, call>>

buckets == <<autoApplied, requiresConfirmation, manualFields, skippedFields>>

counters == <<autoAppliedCount, confirmationCount, manualCount, skippedCount>>

vars == <<description, jiraFields, fieldConfigs, preferences, aiProvider, apiKey, now,
          pc, i, autoApplied, requiresConfirmation, manualFields, skippedFields,
          totalFields, autoAppliedCount, confirmationCount, manualCount, skippedCount,
          calls, warnings, result, call>>

\* the local state at lines 43-53: two empty Maps, two empty arrays, the
\* counters at 0, and no result returned yet
RunInit ==
    /\ i = 1
    /\ autoApplied = <<>>
    /\ requiresConfirmation = <<>>
    /\ manualFields = <<>>
    /\ skippedFields = <<>>
    /\ totalFields = 0
    /\ autoAppliedCount = 0
    /\ confirmationCount = 0
    /\ manualCount = 0
    /\ skippedCount = 0
    /\ calls = <<>>
    /\ warnings = <<>>
    /\ result = [status |-> "pending"]

Init ==
    /\ description \in Descriptions
    /\ jiraFields \in FieldLists
    /\ fieldConfigs \in ConfigLists(jiraFields)
    /\ preferences \in Preferences
    /\ \E h \in Handles : aiProvider = h[1] /\ apiKey = h[2]
    /\ now \in Clocks
    /\ call = [op |-> "none"]
    /\ pc = "loop"
    /\ RunInit

jiraField == jiraFields[i]

config == findConfig(fieldConfigs, jiraField.id)

InLoop == pc = "loop" /\ i <= Len(jiraFields)

\* a variant: Classify keeping a candidate for an auto-applied field too
Classify_alsoConfirms(bucket, extractedValue, n) ==
    /\ autoApplied' = IF bucket = "auto" THEN mapSet(autoApplied, jiraField.id, extractedValue.value) ELSE autoApplied
    /\ requiresConfirmation' = IF bucket \in {"auto", "confirmation"}
                               THEN mapSet(requiresConfirmation, jiraField.id, makeCandidate(jiraField, extractedValue, description))
                               ELSE requiresConfirmation
    /\ manualFields' = IF bucket = "manual" THEN Append(manualFields, jiraField.id) ELSE manualFields
    /\ autoAppliedCount' = autoAppliedCount + n.auto
    /\ confirmationCount' = confirmationCount + n.confirmation
    /\ manualCount' = manualCount + n.manual
    /\ UNCHANGED <<skippedFields, skippedCount>>
    /\ pc' = "loop"
    /\ i' = i + 1

\* the effect of putting the current field in bucket, with the counter
\* increments n, and going on with the next field
Classify(bucket, extractedValue, n) ==
    /\ autoApplied' = IF bucket = "auto" THEN mapSet(autoApplied, jiraField.id, extractedValue.value) ELSE autoApplied
    /\ requiresConfirmation' = IF bucket = "confirmation"
                               THEN mapSet(requiresConfirmation, jiraField.id, makeCandidate(jiraField, extractedValue, description))
                               ELSE requiresConfirmation
    /\ manualFields' = IF bucket = "manual" THEN Append(manualFields, jiraField.id) ELSE manualFields
    /\ autoAppliedCount' = autoAppliedCount + n.auto
    /\ confirmationCount' = confirmationCount + n.confirmation
    /\ manualCount' = manualCount + n.manual
    /\ UNCHANGED <<skippedFields, skippedCount>>
    /\ pc' = "loop"
    /\ i' = i + 1

\* an exception leaves extractFieldValuesWithConfig: the promise is rejected
Reject ==
    /\ pc' = "thrown"
    /\ result' = [status |-> "thrown"]
    /\ UNCHANGED <<i, buckets, counters>>

\* the effect of an extraction with outcome r that puts the field in bucket:
\* the calls and warnings it leaves, and the classification
Settle(r, bucket, n) ==
    /\ calls' = IF r.patternCalled THEN Append(calls, [extractor |-> "pattern", fieldId |-> jiraField.id]) ELSE calls
    /\ warnings' = IF r.caught THEN Append(warnings, jiraField.id) ELSE warnings
    /\ IF r.threw THEN Reject
       ELSE Classify(bucket, r.value, n) /\ UNCHANGED result

\* the rest of one iteration for a configured, enabled, non-manual field once
\* extractSingleFieldValue has its provider outcome (lines 85-112)
FinishConfigured(response) ==
    LET settle(r) == Settle(r, configuredBucket(r.value, config, preferences),
                            configuredCounts(configuredBucket(r.value, config, preferences)))
    IN settle(extractSingleFieldValue(description, jiraField, config, aiProvider, apiKey, response, now))

\* the rest of processFieldWithDefaults once extractSingleFieldWithDefaults
\* has its provider outcome (lines 205-227)
FinishDefaults(response) ==
    LET settle(r) == Settle(r, defaultsBucket(r.value, preferences), defaultsCounts(defaultsBucket(r.value, preferences)))
    IN settle(extractSingleFieldWithDefaults(description, jiraField, preferences, aiProvider, apiKey, response, now))

\* a variant: the field passed over after it has been counted
SkipUnconfigured_counted ==
    /\ InLoop
    /\ ~jiraField.required /\ config = Undefined
    /\ i' = i + 1
    /\ totalFields' = totalFields + 1
    /\ UNCHANGED <<inputs, pc, buckets, counters, calls, warnings, result>>

\* line 59: a field that is neither required nor configured is passed over
SkipUnconfigured ==
    /\ InLoop
    /\ ~jiraField.required /\ config = Undefined
    /\ i' = i + 1
    /\ UNCHANGED <<inputs, pc, buckets, counters, totalFields, calls, warnings, result>>

\* a variant: the disabled branch leaving the field to the user
SkipDisabled_asManual ==
    /\ InLoop
    /\ config # Undefined /\ ~config.extractionEnabled
    /\ totalFields' = totalFields + 1
    /\ manualFields' = Append(manualFields, jiraField.id)
    /\ manualCount' = manualCount + 1
    /\ i' = i + 1
    /\ UNCHANGED <<inputs, pc, autoApplied, requiresConfirmation, skippedFields,
                   autoAppliedCount, confirmationCount, skippedCount, calls, warnings, result>>

\* lines 72-76: extraction disabled
SkipDisabled ==
    /\ InLoop
    /\ config # Undefined /\ ~config.extractionEnabled
    /\ totalFields' = totalFields + 1
    /\ skippedFields' = Append(skippedFields, jiraField.id)
    /\ skippedCount' = skippedCount + 1
    /\ i' = i + 1
    /\ UNCHANGED <<inputs, pc, autoApplied, requiresConfirmation, manualFields,
                   autoAppliedCount, confirmationCount, manualCount, calls, warnings, result>>

\* lines 78-82: manual method or manual-only mode
ManualField ==
    /\ InLoop
    /\ config # Undefined /\ config.extractionEnabled
    /\ config.extractionMethod = "manual" \/ config.extractionMode = "manual-only"
    /\ totalFields' = totalFields + 1
    /\ manualFields' = Append(manualFields, jiraField.id)
    /\ manualCount' = manualCount + 1
    /\ i' = i + 1
    /\ UNCHANGED <<inputs, pc, autoApplied, requiresConfirmation, skippedFields,
                   autoAppliedCount, confirmationCount, skippedCount, calls, warnings, result>>

\* a variant: the extraction branch reached whatever the mode
Extracting_anyMode ==
    /\ InLoop
    /\ config # Undefined /\ config.extractionEnabled
    /\ config.extractionMethod # "manual"

Extracting == /\ InLoop
              /\ config # Undefined /\ config.extractionEnabled
              /\ config.extractionMethod # "manual" /\ config.extractionMode # "manual-only"

\* lines 85-112 when extractSingleFieldValue does not call the provider
ExtractConfigured ==
    /\ Extracting
    /\ ~(config.extractionMethod = "ai" /\ aiProvider /\ apiKey)
    /\ totalFields' = totalFields + 1
    /\ FinishConfigured([k |-> "error"])
    /\ UNCHANGED inputs

\* a variant: the provider called whatever the method of the configuration
CallAIConfigured_anyMethod ==
    /\ Extracting
    /\ aiProvider /\ apiKey
    /\ totalFields' = totalFields + 1
    /\ calls' = Append(calls, [extractor |-> "ai", fieldId |-> jiraField.id])
    /\ pc' = "awaitConfigured"
    /\ UNCHANGED <<inputs, i, buckets, counters, warnings, result>>

\* lines 85 and 143-144: the provider is called and the run is suspended
CallAIConfigured ==
    /\ Extracting
    /\ config.extractionMethod = "ai" /\ aiProvider /\ apiKey
    /\ totalFields' = totalFields + 1
    /\ calls' = Append(calls, [extractor |-> "ai", fieldId |-> jiraField.id])
    /\ pc' = "awaitConfigured"
    /\ UNCHANGED <<inputs, i, buckets, counters, warnings, result>>

\* the provider call settles and the iteration goes on
ResumeConfigured ==
    /\ pc = "awaitConfigured"
    /\ \E response \in AIResponses(jiraField.id) : FinishConfigured(response)
    /\ UNCHANGED <<inputs, totalFields>>

\* lines 63-69 when extractSingleFieldWithDefaults does not call the provider
ProcessDefaults ==
    /\ InLoop
    /\ config = Undefined /\ jiraField.required
    /\ ~(preferences.defaultMethod = "ai" /\ aiProvider /\ apiKey)
    /\ totalFields' = totalFields + 1
    /\ FinishDefaults([k |-> "error"])
    /\ UNCHANGED inputs

\* lines 65 and 240-241: the provider is called and the run is suspended
CallAIDefaults ==
    /\ InLoop
    /\ config = Undefined /\ jiraField.required
    /\ preferences.defaultMethod = "ai" /\ aiProvider /\ apiKey
    /\ totalFields' = totalFields + 1
    /\ calls' = Append(calls, [extractor |-> "ai", fieldId |-> jiraField.id])
    /\ pc' = "awaitDefaults"
    /\ UNCHANGED <<inputs, i, buckets, counters, warnings, result>>

ResumeDefaults ==
    /\ pc = "awaitDefaults"
    /\ \E response \in AIResponses(jiraField.id) : FinishDefaults(response)
    /\ UNCHANGED <<inputs, totalFields>>

\* lines 117-129: the loop is over and the result is returned
Return ==
    /\ pc = "loop" /\ i > Len(jiraFields)
    /\ pc' = "returned"
    /\ result' = [status |-> "returned",
                  autoApplied |-> autoApplied,
                  requiresConfirmation |-> requiresConfirmation,
                  manualFields |-> manualFields,
                  skippedFields |-> skippedFields,
                  extractionSummary |-> [totalFields |-> totalFields, autoAppliedCount |-> autoAppliedCount,
                                         confirmationCount |-> confirmationCount, manualCount |-> manualCount,
                                         skippedCount |-> skippedCount]]
    /\ UNCHANGED <<inputs, i, buckets, counters, totalFields, calls, warnings>>

Next ==
    \/ SkipUnconfigured
    \/ SkipDisabled
    \/ ManualField
    \/ ExtractConfigured
    \/ CallAIConfigured
    \/ ResumeConfigured
    \/ ProcessDefaults
    \/ CallAIDefaults
    \/ ResumeDefaults
    \/ Return

Spec == Init /\ [][Next]_vars

(***************************************************************************)
(* Jira Field Service (JiraFieldService)                                   *)
(*                                                                         *)
(* A raw field map (the "fields" object of the create metadata) is the     *)
(* sequence of its entries [id, info] in the order of Object.entries; the  *)
(* ids of a map are distinct.                                              *)
(***************************************************************************)
MaxRawFields == 3

\* String.prototype.localeCompare on letters, digits and spaces: -1, 0 or 1.
\* Strings are compared first without regard to case, a space before the
\* digits and the digits before the letters, a prefix before its extensions;
\* strings that differ in case only, by the first such letter, lower case first.
localeCompare(a, b) ==
    LET key(c) == IF c = " " THEN 0
                  ELSE IF IsDigit(c) THEN CHOOSE d \in 1..10 : DigitChars[d] = c
                  ELSE 10 + (CHOOSE d \in 1..26 : LowerChars[d] = LowerChar(c))
        n == IF Len(a) < Len(b) THEN Len(a) ELSE Len(b)
        byCase(ks) == IF ks = {} THEN 0 ELSE IF IsLower(a[Least(ks)]) THEN -1 ELSE 1
        byLength == IF Len(a) < Len(b) THEN -1 ELSE IF Len(a) > Len(b) THEN 1
                    ELSE byCase({k \in 1..n : a[k] # b[k]})
        byKey(ks) == IF ks = {} THEN byLength
                     ELSE IF key(a[Least(ks)]) < key(b[Least(ks)]) THEN -1 ELSE 1
    IN byKey({k \in 1..n : key(a[k]) # key(b[k])})

\* mapJiraFieldType (lines 1058-1075)
mapJiraFieldType(jiraType) ==
    IF jiraType = "string" THEN "text"
    ELSE IF jiraType = "number" THEN "number"
    ELSE IF jiraType \in {"date", "datetime"} THEN "date"
    ELSE IF jiraType = "option" THEN "select"
    ELSE IF jiraType = "array" THEN "multiselect"
    ELSE IF jiraType \in {"user", "project"} THEN "text"
    ELSE IF jiraType \in {"issuetype", "priority", "resolution", "status"} THEN "select"
    ELSE "text"

\* a variant: the comparator by name alone
compareFields_byName(a, b) == localeCompare(a.name, b.name)

\* the comparator of the sort (lines 1049-1054): required fields first, then by name
compareFields(a, b) ==
    IF a.required /\ ~b.required THEN -1
    ELSE IF ~a.required /\ b.required THEN 1
    ELSE localeCompare(a.name, b.name)

\* parseFieldMetadata (lines 1023-1055): one descriptor per entry of the raw
\* map, then Array.prototype.sort, which is stable, with compareFields
parseFieldMetadata(fieldsData) ==
    LET \* v.name || v.value || v.id || String(v) of an allowed value (lines 1033-1036)
        text(v) == IF IsStr(v) THEN v
                   ELSE IF truthy(v.name) THEN v.name
                   ELSE IF truthy(v.value) THEN v.value
                   ELSE IF truthy(v.id) THEN v.id
                   ELSE Str(<<"[","o","b","j","e","c","t"," ","O","b","j","e","c","t","]">>)
        values(a) == SelectSeq(Tuple([k \in 1..Len(a) |-> text(a[k])], Len(a)), truthy)
        descriptor(e) ==
            [id |-> e.id,
             name |-> IF truthy(e.info.name) THEN e.info.name.s ELSE e.id,
             type |-> mapJiraFieldType(IF e.info.schemaType = "" THEN "string" ELSE e.info.schemaType),
             required |-> truthy(e.info.required),
             allowedValues |-> IF e.info.allowedValues.t = "arr" THEN Arr(values(e.info.allowedValues.a)) ELSE Undefined,
             description |-> IF truthy(e.info.description) THEN e.info.description ELSE Undefined]
        sort(fields) ==
            LET rank(j) == Cardinality({x \in 1..Len(fields) : compareFields(fields[x], fields[j]) < 0
                                                               \/ (compareFields(fields[x], fields[j]) = 0 /\ x < j)}) + 1
            IN Tuple([r \in 1..Len(fields) |-> fields[CHOOSE j \in 1..Len(fields) : rank(j) = r]], Len(fields))
    IN sort(Tuple([k \in 1..Len(fieldsData) |-> descriptor(fieldsData[k])], Len(fieldsData)))

\* an entry of a raw field map; schemaType is "" when the field has no schema
rawField(id, name, schemaType, required, allowedValues) ==
    [id |-> id, info |-> [name |-> name, schemaType |-> schemaType, required |-> required,
                          allowedValues |-> allowedValues, description |-> Undefined]]

\* the entries raw field maps are made of: required and optional fields,
\* names in upper and lower case, a name used twice, a field without name,
\* allowed values that are option objects
RawFieldPool ==
    <<rawField(<<"s","u","m","m","a","r","y">>, Str(<<"S","u","m","m","a","r","y">>), "string", Bool(TRUE), Undefined),
      rawField(<<"d","e","s","c","r","i","p","t","i","o","n">>, Str(<<"D","e","s","c","r","i","p","t","i","o","n">>), "string", Bool(FALSE), Undefined),
      rawField(<<"p","r","i","o","r","i","t","y">>, Str(<<"P","r","i","o","r","i","t","y">>), "priority", Undefined,
               Arr(<<[t |-> "obj", name |-> Str(<<"H","i","g","h">>), value |-> Undefined, id |-> Str(<<"2">>)],
                     [t |-> "obj", name |-> Undefined, value |-> Str(<<"L","o","w">>), id |-> Str(<<"4">>)]>>)),
      rawField(<<"c","u","s","t","o","m","f","i","e","l","d","_","1","0","0","0","1">>, Str(<<"e","p","i","c"," ","n","a","m","e">>), "string", Bool(TRUE), Undefined),
      rawField(<<"l","a","b","e","l","s">>, Undefined, "array", Bool(FALSE), Undefined),
      rawField(<<"c","u","s","t","o","m","f","i","e","l","d","_","1","0","0","0","2">>, Str(<<"S","u","m","m","a","r","y">>), "", Bool(TRUE), Undefined)>>

\* the raw field maps of at most n entries, in every order of their entries
RawFieldMaps(n) ==
    LET distinct(q) == \A a, b \in 1..Len(q) : a # b => q[a] # q[b]
    IN {[k \in 1..Len(q) |-> RawFieldPool[q[k]]] : q \in {x \in SeqsUpTo(1..Len(RawFieldPool), n) : distinct(x)}}

\* guessFieldTypeFromId (lines 1224-1236)
guessFieldTypeFromId(fieldId) ==
    LET has(word) == includes(fieldId, word)
    IN IF fieldId = <<"c","u","s","t","o","m","f","i","e","l","d","_","2","6","3","6","2">> THEN "select"
       ELSE IF fieldId = S_customfield_26360 THEN "multiselect"
       ELSE IF has(<<"d","a","t","e">>) \/ has(<<"t","i","m","e">>) THEN "date"
       ELSE IF has(<<"n","u","m","b","e","r">>) \/ has(<<"p","o","i","n","t">>) THEN "number"
       ELSE IF has(<<"p","r","i","o","r","i","t","y">>) \/ has(<<"s","t","a","t","u","s">>) \/ has(<<"t","y","p","e">>) THEN "select"
       ELSE IF has(<<"d","e","s","c","r","i","p","t","i","o","n">>) \/ has(<<"c","o","m","m","e","n","t">>) THEN "textarea"
       ELSE IF has(<<"r","o","a","d","m","a","p">>) \/ has(<<"i","n","c","l","u","d","e">>) THEN "select"
       ELSE IF has(S_quarter) THEN "select"
       ELSE "text"

\* the four quarters of the year and of the next, as lines 1248-1257 list them
quartersFrom(year) ==
    Arr([k \in 1..8 |-> Str(<<"Q">> \o toString(((k - 1) % 4) + 1) \o <<" ">> \o toString(year + ((k - 1) \div 4)))])

\* getCommonAllowedValues (lines 1239-1293); year is new Date().getFullYear()
getCommonAllowedValues(fieldId, fieldName, year) ==
    LET has(word) == includes(toLowerCase(fieldName), word)
        strings(seq) == Arr([k \in 1..Len(seq) |-> Str(seq[k])])
    IN IF fieldId = <<"c","u","s","t","o","m","f","i","e","l","d","_","2","6","3","6","2">> \/ has(<<"d","e","l","i","v","e","r","y"," ","q","u","a","r","t","e","r">>) THEN quartersFrom(year)
       ELSE IF fieldId = S_customfield_26360 \/ has(<<"r","o","a","d","m","a","p">>) \/ has(<<"i","n","c","l","u","d","e"," ","o","n"," ","r","o","a","d","m","a","p">>)
            THEN strings(<<<<"I","n","t","e","r","n","a","l">>, <<"E","x","t","e","r","n","a","l">>>>)
       ELSE IF fieldId = <<"i","s","s","u","e","t","y","p","e">> \/ has(<<"i","s","s","u","e"," ","t","y","p","e">>)
            THEN strings(<<<<"E","p","i","c">>, <<"S","t","o","r","y">>, <<"T","a","s","k">>, <<"B","u","g">>, <<"I","n","i","t","i","a","t","i","v","e">>>>)
       ELSE IF fieldId = <<"p","r","i","o","r","i","t","y">> \/ has(<<"p","r","i","o","r","i","t","y">>)
            THEN strings(<<<<"H","i","g","h","e","s","t">>, <<"H","i","g","h">>, <<"M","e","d","i","u","m">>, <<"L","o","w">>, <<"L","o","w","e","s","t">>>>)
       ELSE IF has(S_quarter) THEN Arr(SubSeq(quartersFrom(year).a, 1, 6))
       ELSE IF has(<<"y","e","s">>) \/ has(<<"n","o">>) \/ has(<<"i","n","c","l","u","d","e">>) THEN strings(<<<<"Y","e","s">>, <<"N","o">>>>)
       ELSE Undefined

\* formatFieldName (lines 1296-1328)
formatFieldName(fieldId) ==
    LET standardNames ==
            {<<<<"s","u","m","m","a","r","y">>, <<"T","i","t","l","e">>>>, <<<<"d","e","s","c","r","i","p","t","i","o","n">>, <<"D","e","s","c","r","i","p","t","i","o","n">>>>, <<<<"a","s","s","i","g","n","e","e">>, <<"A","s","s","i","g","n","e","e">>>>,
             <<<<"r","e","p","o","r","t","e","r">>, <<"R","e","p","o","r","t","e","r">>>>, <<<<"p","r","i","o","r","i","t","y">>, <<"P","r","i","o","r","i","t","y">>>>, <<<<"i","s","s","u","e","t","y","p","e">>, <<"I","s","s","u","e"," ","T","y","p","e">>>>,
             <<<<"p","r","o","j","e","c","t">>, <<"P","r","o","j","e","c","t">>>>, <<<<"f","i","x","V","e","r","s","i","o","n","s">>, <<"F","i","x"," ","V","e","r","s","i","o","n","/","s">>>>, <<<<"v","e","r","s","i","o","n","s">>, <<"A","f","f","e","c","t","s"," ","V","e","r","s","i","o","n","/","s">>>>,
             <<<<"c","o","m","p","o","n","e","n","t","s">>, <<"C","o","m","p","o","n","e","n","t","/","s">>>>, <<<<"l","a","b","e","l","s">>, <<"L","a","b","e","l","s">>>>, <<<<"d","u","e","d","a","t","e">>, <<"D","u","e"," ","D","a","t","e">>>>,
             <<<<"r","e","s","o","l","u","t","i","o","n">>, <<"R","e","s","o","l","u","t","i","o","n">>>>, <<<<"s","t","a","t","u","s">>, <<"S","t","a","t","u","s">>>>, <<<<"c","r","e","a","t","e","d">>, <<"C","r","e","a","t","e","d">>>>,
             <<<<"u","p","d","a","t","e","d">>, <<"U","p","d","a","t","e","d">>>>, <<<<"r","e","s","o","l","u","t","i","o","n","d","a","t","e">>, <<"R","e","s","o","l","v","e","d">>>>, <<<<"w","o","r","k","l","o","g">>, <<"W","o","r","k"," ","L","o","g">>>>,
             <<<<"a","t","t","a","c","h","m","e","n","t">>, <<"A","t","t","a","c","h","m","e","n","t">>>>, <<<<"c","o","m","m","e","n","t">>, <<"C","o","m","m","e","n","t","s">>>>, <<<<"i","s","s","u","e","l","i","n","k","s">>, <<"L","i","n","k","e","d"," ","I","s","s","u","e","s">>>>,
             <<<<"s","u","b","t","a","s","k","s">>, <<"S","u","b","-","t","a","s","k","s">>>>, <<<<"p","a","r","e","n","t">>, <<"P","a","r","e","n","t">>>>, <<<<"c","u","s","t","o","m","f","i","e","l","d","_","1","0","0","0","0">>, <<"S","t","o","r","y"," ","P","o","i","n","t","s">>>>,
             <<<<"c","u","s","t","o","m","f","i","e","l","d","_","1","0","0","0","1">>, <<"E","p","i","c"," ","N","a","m","e">>>>, <<<<"c","u","s","t","o","m","f","i","e","l","d","_","1","0","0","0","2">>, <<"E","p","i","c"," ","L","i","n","k">>>>}
        toUpperCase(c) == IF IsLower(c) THEN CHOOSE u \in DOMAIN UpperIndex : LowerChars[UpperIndex[u]] = c ELSE c
        named(hits) == IF hits # {} THEN (CHOOSE h \in hits : TRUE)[2]
                       ELSE IF fieldId = <<>> THEN <<>>
                       ELSE <<toUpperCase(fieldId[1])>> \o SubSeq(fieldId, 2, Len(fieldId))
    IN named({n \in standardNames : n[1] = fieldId})

\* One attempt of a pattern of lines 1156-1160 (and 1185-1189) at position
\* start of s: <<first, last, next>>, the capture s[first..last] and the position
\* after the match, or <<>>.  The patterns are
\*   1  /Field '([^']+)' is required/gi
\*   2  /([a-zA-Z_][a-zA-Z0-9_]*) is required/gi
\*   3  /"([^"]+)" is required/gi
requiredPatternAt(p, s, start) ==
    LET notQuote(c) == c # "'"
        notDoubleQuote(c) == c # "\""
        closed(first, close, tail) == IF close > first /\ LooksAtI(s, close, tail) THEN <<first, close - 1, close + Len(tail)>> ELSE <<>>
        word(e) == IF LooksAtI(s, e, <<" ","i","s"," ","r","e","q","u","i","r","e","d">>) THEN <<start, e - 1, e + 12>> ELSE <<>>
    IN IF p = 1 THEN IF LooksAtI(s, start, <<"f","i","e","l","d"," ","'">>) THEN closed(start + 7, SkipWhile(s, start + 7, notQuote), <<"'"," ","i","s"," ","r","e","q","u","i","r","e","d">>) ELSE <<>>
       ELSE IF p = 2 THEN IF IsUpper(s[start]) \/ IsLower(s[start]) \/ s[start] = "_" THEN word(SkipWhile(s, start, IsWordChar)) ELSE <<>>
       ELSE IF s[start] = "\"" THEN closed(start + 1, SkipWhile(s, start + 1, notDoubleQuote), <<"\"">> \o <<" ","i","s"," ","r","e","q","u","i","r","e","d">>) ELSE <<>>

\* the loops of lines 1162-1177 and 1191-1206 over the three patterns and the
\* matches of each in message: fields with the new fields appended
requiredFieldsIn(fields, message, year) ==
    LET field(fieldId) == [id |-> fieldId, name |-> fieldId, type |-> guessFieldTypeFromId(fieldId), required |-> TRUE,
                           allowedValues |-> getCommonAllowedValues(fieldId, fieldId, year),
                           description |-> Str(<<"R","e","q","u","i","r","e","d"," ","f","i","e","l","d"," ","d","i","s","c","o","v","e","r","e","d"," ","f","r","o","m"," ","e","r","r","o","r",":"," ">> \o message)]
        add(found, fieldId) == IF fieldId # <<>> /\ \A k \in 1..Len(found) : found[k].id # fieldId
                               THEN Append(found, field(fieldId)) ELSE found
        RECURSIVE exec(_, _, _)
        exec(found, p, from) ==
            LET at(j) == requiredPatternAt(p, message, j)
                next(m) == IF m = <<>> THEN (IF p = 3 THEN found ELSE exec(found, p + 1, 1))
                           ELSE exec(add(found, SubSeq(message, m[1], m[2])), p, m[3])
            IN next(Leftmost(from, Len(message), at))
    IN exec(fields, 1, 1)

\* a variant: no fields are added when none was found
withCommonFields_never(fields) == fields

\* lines 1209-1217: the common required fields when none was found
withCommonFields(fields) ==
    LET common(id, name, type, required, allowedValues) ==
            [id |-> id, name |-> name, type |-> type, required |-> required, allowedValues |-> allowedValues, description |-> Undefined]
    IN IF Len(fields) = 0
       THEN <<common(<<"s","u","m","m","a","r","y">>, <<"S","u","m","m","a","r","y">>, "text", TRUE, Undefined),
              common(<<"d","e","s","c","r","i","p","t","i","o","n">>, <<"D","e","s","c","r","i","p","t","i","o","n">>, "textarea", FALSE, Undefined),
              common(<<"i","s","s","u","e","t","y","p","e">>, <<"I","s","s","u","e"," ","T","y","p","e">>, "select", TRUE,
                     Arr(<<Str(<<"E","p","i","c">>), Str(<<"S","t","o","r","y">>), Str(<<"T","a","s","k">>), Str(<<"B","u","g">>), Str(<<"I","n","i","t","i","a","t","i","v","e">>)>>)),
              common(<<"p","r","o","j","e","c","t">>, <<"P","r","o","j","e","c","t">>, "select", TRUE, Undefined)>>
       ELSE fields

\* parseErrorForRequiredFields (lines 1115-1221).  errorData is a value of
\* JSON: null, a number, a string, or an object [t |-> "obj", errors |-> e,
\* errorMessages |-> m] where e is Undefined or [t |-> "map", e |-> the
\* entries [id, message] of the errors object] and m is Undefined or an array.
parseErrorForRequiredFields(errorData, year) ==
    LET \* /^([^.]+) is required/i: the longest prefix without a dot that " is required" follows
        nameMatch(s) == {k \in 2..Len(s) : LooksAtI(s, k, <<" ","i","s"," ","r","e","q","u","i","r","e","d">>) /\ \A d \in 1..(k - 1) : s[d] # "."}
        fieldName(id, s) == IF nameMatch(s) # {} THEN SubSeq(s, 1, Greatest(nameMatch(s)) - 1) ELSE formatFieldName(id)
        fromError(e) == [id |-> e.id, name |-> fieldName(e.id, e.message.s), type |-> guessFieldTypeFromId(e.id), required |-> TRUE,
                         allowedValues |-> getCommonAllowedValues(e.id, fieldName(e.id, e.message.s), year),
                         description |-> Str(<<"R","e","q","u","i","r","e","d"," ","f","i","e","l","d"," ","d","i","s","c","o","v","e","r","e","d"," ","f","r","o","m"," ","e","r","r","o","r",":"," ">> \o e.message.s)]
        isRequired(e) == IsStr(e.message) /\ includes(toLowerCase(e.message.s), <<"r","e","q","u","i","r","e","d">>)
        errors(e) == LET kept == SelectSeq(e, isRequired) IN Tuple([k \in 1..Len(kept) |-> fromError(kept[k])], Len(kept))
        RECURSIVE messages(_, _, _)
        messages(found, m, k) ==
            IF k > Len(m) THEN found
            ELSE messages(IF IsStr(m[k]) THEN requiredFieldsIn(found, m[k].s, year) ELSE found, m, k + 1)
        object(o) == messages(IF o.errors.t = "map" THEN errors(o.errors.e) ELSE <<>>,
                              IF o.errorMessages.t = "arr" THEN o.errorMessages.a ELSE <<>>, 1)
    IN withCommonFields(IF errorData.t = "obj" THEN object(errorData)
                        ELSE IF errorData.t = "str" THEN requiredFieldsIn(<<>>, errorData.s, year)
                        ELSE <<>>)

(***************************************************************************)
(* The pure functions applied on their own: extractWithAI on any provider  *)
(* answer, and the classification of one field under two thresholds        *)
(***************************************************************************)
MaxExtractions == 1

\* the outcomes of a provider call whose answer has at most MaxExtractions
\* entries: an entry is null or has any fieldId, value and confidence
RawResponses ==
    {[k |-> "error"], [k |-> "empty"], [k |-> "notjson"],
     [k |-> "json", result |-> Null],
     [k |-> "json", result |-> [t |-> "obj", extractions |-> Undefined]]}
    \cup {[k |-> "json", result |-> [t |-> "obj", extractions |-> Arr(q)]] :
            q \in SeqsUpTo([fieldId : {Str(priorityField.id), Str(<<>>), Undefined, Null},
                            value : {Str(<<"H","i","g","h">>), Num(0), Undefined, Null},
                            confidence : {Num(50), Num(51), Num(95), Undefined}]
                           \cup {Null}, MaxExtractions)}

AICalls == {[op |-> "extractWithAI", response |-> r, status |-> "pending", ret |-> Null] : r \in RawResponses}

\* the pairs low < high of the thresholds a user can choose
ThresholdPairs == {t \in {50, 70, 80, 90} \X {50, 70, 80, 90} : t[1] < t[2]}

\* the classifications to compare for the fields of pool; the settings of the
\* field whose threshold varies are a configuration that extracts, or none
\* for a required field
ThresholdCalls(pool) ==
    LET VaryingSettings(field) ==
            {setting(TRUE, m, e, 50) : m \in {"ai", "pattern"}, e \in {"auto-apply", "always-confirm"}}
            \cup (IF field.required THEN {Undefined} ELSE {})
    IN
    UNION {{[op |-> "thresholds", description |-> d, jiraField |-> pool[f], settings |-> s,
             preferences |-> [defaultMethod |-> m, globalConfidenceThreshold |-> 50, requireConfirmationForAll |-> c],
             provider |-> h[1], key |-> h[2], response |-> r, low |-> t[1], high |-> t[2],
             status |-> "pending", ret |-> Null] :
            d \in Descriptions, s \in VaryingSettings(pool[f]), m \in {"ai", "pattern"}, c \in BOOLEAN,
            h \in Handles, r \in AIResponses(pool[f].id), t \in ThresholdPairs} :
           f \in 1..Len(pool)}

\* processFieldWithDefaults (lines 193-227): the bucket of a field without configuration
processFieldWithDefaults(desc, field, prefs, provider, key, response, clock) ==
    defaultsBucket(extractSingleFieldWithDefaults(desc, field, prefs, provider, key, response, clock).value, prefs)

\* the bucket of the field of the call c when its threshold is t: the
\* confidenceThreshold of its configuration, or globalConfidenceThreshold
\* when it has none
bucketAt(c, t, clock) ==
    LET \* lines 85-112: the bucket of a configured, enabled, non-manual field
        classifyConfigured(fieldConfig) ==
            configuredBucket(extractSingleFieldValue(c.description, c.jiraField, fieldConfig, c.provider, c.key, c.response, clock).value,
                             fieldConfig, c.preferences)
    IN IF c.settings = Undefined
       THEN processFieldWithDefaults(c.description, c.jiraField, [c.preferences EXCEPT !.globalConfidenceThreshold = t],
                                     c.provider, c.key, c.response, clock)
       ELSE classifyConfigured(configOf(c.jiraField.id, [c.settings EXCEPT !.confidenceThreshold = t]))

\* the fields of the pattern rules that FieldPool lacks
quarterField(allowedValues) ==
    [id |-> <<"c","u","s","t","o","m","f","i","e","l","d","_","2","6","3","6","2">>, name |-> <<"D","e","l","i","v","e","r","y"," ","Q","u","a","r","t","e","r">>, type |-> "select", required |-> TRUE, allowedValues |-> allowedValues]

epicField == [id |-> <<"c","u","s","t","o","m","f","i","e","l","d","_","1","0","0","0","2">>, name |-> <<"E","p","i","c"," ","L","i","n","k">>, type |-> "text", required |-> FALSE, allowedValues |-> Undefined]

roadmapField == [id |-> S_customfield_26360, name |-> <<"I","n","c","l","u","d","e"," ","o","n"," ","R","o","a","d","m","a","p">>, type |-> "multiselect", required |-> FALSE,
                 allowedValues |-> Arr(<<Str(<<"I","n","t","e","r","n","a","l">>), Str(<<"E","x","t","e","r","n","a","l">>)>>)]

\* the allowed values of a quarter field: none, and lists with and without
\* the current quarter
QuarterAllowed == {Undefined, quartersFrom(2025),
                   Arr(<<Str(<<"Q","1"," ","2","0","2","6">>), Str(<<"Q","2"," ","2","0","2","5">>)>>),
                   Arr(<<Str(<<"Q","3"," ","2","0","2","5">>)>>),
                   Arr(<<Str(<<"Q","3"," ","2","0","2","6">>), Str(<<"Q","3"," ","2","0","2","7">>), Str(<<"Q","1"," ","2","0","2","6">>)>>)}

PatternPool == <<priorityField, quarterField(quartersFrom(2025)), epicField, roadmapField>>

PatternDescriptions ==
    {<<"t","h","i","s"," ","i","s"," ","u","r","g","e","n","t"," ","a","n","d"," ","c","r","i","t","i","c","a","l">>, <<"a"," ","m","a","j","o","r"," ","b","u","g">>, <<"m","i","n","o","r"," ","f","i","x">>, <<"t","r","i","v","i","a","l"," ","t","y","p","o">>, <<"h","i","g","h"," ","p","r","i","o","r","i","t","y">>,
     <<"P","a","r","t"," ","o","f"," ","P","R","O","J","-","1","2","3">>, <<"p","u","b","l","i","c"," ","r","o","a","d","m","a","p"," ","i","t","e","m">>, <<"I","m","p","r","o","v","e"," ","d","o","c","s">>,
     <<"S","h","i","p"," ","i","n"," ","Q","1"," ","2","0","2","6">>, <<"q","u","a","r","t","e","r"," ","2"," ","2","0","2","5"," ","o","r"," ","Q","1"," ","2","0","2","6">>, <<"2","n","d"," ","q","u","a","r","t","e","r"," ","2","0","2","5">>, <<"f","i","r","s","t"," ","q","u","a","r","t","e","r"," ","2","0","2","6">>,
     <<"q","2"," ","l","a","u","n","c","h">>, <<"q","u","a","r","t","e","r"," ","3">>, <<"d","e","l","i","v","e","r"," ","i","n"," ","2","0","2","6">>, <<"Q","4"," ","2","0","2","7"," ","t","a","r","g","e","t">>}

\* readings of the clock in the third quarter of 2025 and the first of 2026
PatternClocks == {[year |-> 2025, month |-> 8], [year |-> 2026, month |-> 1]}

\* the applications of extractWithPatterns: to at most MaxFields fields of
\* pool in any order, and to a quarter field with each list of allowed values
PatternCalls(pool) ==
    LET distinct(q) == \A a, b \in 1..Len(q) : a # b => q[a] # q[b]
        lists == {[k \in 1..Len(q) |-> pool[q[k]]] : q \in {x \in SeqsUpTo(1..Len(pool), MaxFields) : distinct(x)}}
                 \cup {<<quarterField(a)>> : a \in QuarterAllowed}
    IN {[op |-> "extractWithPatterns", description |-> d, fields |-> f, status |-> "pending", ret |-> Null] :
          d \in PatternDescriptions, f \in lists}

\* a select field with more allowed values than generateSuggestions returns
teamField == [id |-> <<"c","u","s","t","o","m","f","i","e","l","d","_","1","0","0","7","0">>, name |-> <<"T","e","a","m">>, type |-> "select", required |-> FALSE,
              allowedValues |-> Arr(<<Str(<<"W","e","b">>), Str(<<"A","P","I">>), Str(<<"D","a","t","a">>), Str(<<"O","p","s">>), Str(<<"M","o","b","i","l","e">>),
                                      Str(<<"W","e","b"," ","A","P","I">>), Str(<<"D","a","t","a"," ","O","p","s">>)>>)]

\* the applications of generateSuggestions
SuggestionCalls ==
    {[op |-> "generateSuggestions", field |-> f, description |-> d, status |-> "pending", ret |-> Null] :
       f \in {priorityField, componentsField, teamField, epicField},
       d \in {<<"w","e","b"," ","a","p","i"," ","d","a","t","a"," ","o","p","s"," ","m","o","b","i","l","e">>, <<"M","o","b","i","l","e"," ","d","a","t","a">>, <<"u","r","g","e","n","t"," ","a","n","d"," ","i","m","p","o","r","t","a","n","t",","," ","n","o","t"," ","h","i","g","h">>,
              <<"f","i","x"," ","t","h","e"," ","b","a","c","k","e","n","d"," ","l","a","t","e","r">>, <<"I","m","p","r","o","v","e"," ","d","o","c","s">>}}

\* the applications of parseFieldMetadata
MetadataCalls ==
    {[op |-> "parseFieldMetadata", fieldsData |-> m, status |-> "pending", ret |-> Null] : m \in RawFieldMaps(MaxRawFields)}

MaxErrors == 2

\* the entries of an errors object: messages that name the field, that only
\* say 'required', that do not, and that are not strings
ErrorEntries ==
    <<[id |-> <<"s","u","m","m","a","r","y">>, message |-> Str(<<"S","u","m","m","a","r","y"," ","i","s"," ","r","e","q","u","i","r","e","d",".">>)],
      [id |-> <<"c","u","s","t","o","m","f","i","e","l","d","_","2","0","0","0","1">>, message |-> Str(<<"T","a","r","g","e","t"," ","Q","u","a","r","t","e","r"," ","i","s"," ","r","e","q","u","i","r","e","d",".">>)],
      [id |-> <<"c","u","s","t","o","m","f","i","e","l","d","_","2","6","3","6","2">>, message |-> Str(<<"D","e","l","i","v","e","r","y"," ","Q","u","a","r","t","e","r"," ","i","s"," ","r","e","q","u","i","r","e","d",".">>)],
      [id |-> <<"c","u","s","t","o","m","f","i","e","l","d","_","2","0","0","0","2">>, message |-> Str(<<"R","e","q","u","i","r","e","d">>)],
      [id |-> <<"p","r","i","o","r","i","t","y">>, message |-> Str(<<"S","p","e","c","i","f","y"," ","a"," ","v","a","l","i","d"," ","p","r","i","o","r","i","t","y">>)],
      [id |-> <<"p","r","o","j","e","c","t">>, message |-> Num(1)]>>

\* the elements of an errorMessages array
ErrorMessages ==
    {Str(<<"F","i","e","l","d"," ","'","d","u","e","d","a","t","e","'"," ","i","s"," ","r","e","q","u","i","r","e","d">>), Str(<<"d","u","e","d","a","t","e"," ","i","s"," ","r","e","q","u","i","r","e","d"," ","a","n","d"," ","l","a","u","n","c","h","_","q","u","a","r","t","e","r"," ","i","s"," ","r","e","q","u","i","r","e","d">>),
     Str(<<"\"">> \o <<"T","a","r","g","e","t"," ","Q","u","a","r","t","e","r">> \o <<"\"">> \o <<" ","i","s"," ","r","e","q","u","i","r","e","d">>), Str(<<"I","s","s","u","e"," ","t","y","p","e"," ","i","s"," ","i","n","v","a","l","i","d">>), Num(3)}

\* the payloads of a failed test creation: no object, strings, and objects
\* with at most MaxErrors errors and messages in all
ErrorPayloads ==
    LET distinct(q) == \A a, b \in 1..Len(q) : a # b => q[a] # q[b]
        maps == {[k \in 1..Len(q) |-> ErrorEntries[q[k]]] : q \in {x \in SeqsUpTo(1..Len(ErrorEntries), MaxErrors) : distinct(x)}}
        lists == SeqsUpTo(ErrorMessages, MaxErrors)
    IN {Null, Num(0), Str(<<>>), Str(<<"S","o","m","e","t","h","i","n","g"," ","w","e","n","t"," ","w","r","o","n","g">>), Str(<<"F","i","e","l","d"," ","'","s","u","m","m","a","r","y","'"," ","i","s"," ","r","e","q","u","i","r","e","d">>),
        Str(<<"S","p","r","i","n","t"," ","i","s"," ","r","e","q","u","i","r","e","d","."," ","s","u","m","m","a","r","y"," ","i","s"," ","r","e","q","u","i","r","e","d">>),
        [t |-> "obj", errors |-> Undefined, errorMessages |-> Undefined]}
       \cup UNION {{[t |-> "obj", errors |-> [t |-> "map", e |-> e], errorMessages |-> m] :
                      m \in {Undefined} \cup {Arr(l) : l \in {x \in lists : Len(x) + Len(e) <= MaxErrors}}} :
                    e \in maps}
       \cup {[t |-> "obj", errors |-> Undefined, errorMessages |-> Arr(l)] : l \in lists}

\* the applications of parseErrorForRequiredFields
ParseErrorCalls ==
    {[op |-> "parseErrorForRequiredFields", errorData |-> e, status |-> "pending", ret |-> Null] : e \in ErrorPayloads}

\* a required field that the roadmap rule matches by its name and whose id
\* is not customfield_26360
visibilityField == [id |-> <<"c","u","s","t","o","m","f","i","e","l","d","_","3","0","0","0","1">>, name |-> <<"R","o","a","d","m","a","p"," ","V","i","s","i","b","i","l","i","t","y">>, type |-> "select", required |-> TRUE, allowedValues |-> Undefined]

\* extractFieldValues (lines 268-319), the legacy whole-batch path, on the
\* outcome of its one provider call: whether an exception leaves it, and the
\* FieldExtractionResult it returns
extractFieldValues(desc, fields, provider, key, response, clock) ==
    LET has(entries, id) == \E k \in 1..Len(entries) : entries[k].fieldId = id
        offers(f) == f.allowedValues.t = "arr" /\ Len(f.allowedValues.a) > 0
        suggestions == [id \in {fields[k].id : k \in {x \in 1..Len(fields) : offers(fields[x])}} |->
                          generateSuggestions(fields[Least({x \in 1..Len(fields) : fields[x].id = id})], desc)]
        missing(extractedFields) ==
            LET lacks(f) == f.required /\ ~has(extractedFields, f.id)
                left == SelectSeq(fields, lacks)
            IN [k \in 1..Len(left) |-> left[k].id]
        returned(extractedFields) ==
            [threw |-> FALSE, extractedFields |-> extractedFields, missingFields |-> missing(extractedFields), suggestions |-> suggestions]
        fallback(aiExtracted, patternExtracted) ==
            IF patternExtracted.threw THEN [threw |-> TRUE] ELSE returned(aiExtracted \o patternExtracted.out)
        remaining(aiExtracted) ==
            LET notExtracted(f) == ~has(aiExtracted, f.id)
            IN fallback(aiExtracted, extractWithPatterns(desc, SelectSeq(fields, notExtracted), clock))
        try(ai) == IF provider /\ key /\ ~ai.threw THEN remaining(ai.out) ELSE remaining(<<>>)
    IN try(extractWithAI(response))

\* the fields of the legacy path: a priority and a roadmap field, and the
\* fields the pattern rules give another id than their own
LegacyPool == <<priorityField, roadmapField, visibilityField, epicField>>

\* the applications of extractFieldValues: to at most MaxFields fields of
\* pool, with and without a provider, on every outcome of the provider call
\* that names fields of the list
LegacyCalls(pool) ==
    LET lists == {pick(pool, S) : S \in {T \in SUBSET (1..Len(pool)) : Cardinality(T) \in 1..MaxFields}}
        responses(f, h) == IF h[1] THEN UNION {AIResponses(f[k].id) : k \in 1..Len(f)} ELSE {[k |-> "error"]}
    IN UNION {{[op |-> "extractFieldValues", description |-> d, fields |-> f, provider |-> h[1], key |-> h[2],
                response |-> r, status |-> "pending", ret |-> Null] :
                 d \in {<<"C","r","i","t","i","c","a","l"," ","b","a","c","k","e","n","d"," ","b","u","g">>, <<"s","h","o","w"," ","o","n"," ","t","h","e"," ","p","u","b","l","i","c"," ","r","o","a","d","m","a","p">>, <<"I","m","p","r","o","v","e"," ","d","o","c","s">>}, r \in responses(f, h)} :
              f \in lists, h \in Handles}

\* categorizeFields (lines 1394-1415) with isCommonlyUsedField (lines
\* 1418-1433), isProjectSpecificField (lines 1436-1438) and isSystemField
\* (lines 1441-1449): the four lists, each in the order of the input
categorizeFields(fields) ==
    LET commonFieldIds == {<<"a","s","s","i","g","n","e","e">>, <<"p","r","i","o","r","i","t","y">>, <<"f","i","x","V","e","r","s","i","o","n","s">>, <<"c","o","m","p","o","n","e","n","t","s">>, <<"l","a","b","e","l","s">>, <<"d","u","e","d","a","t","e">>,
                           <<"c","u","s","t","o","m","f","i","e","l","d","_","1","0","0","0","0">>, <<"c","u","s","t","o","m","f","i","e","l","d","_","1","0","0","0","1">>, <<"c","u","s","t","o","m","f","i","e","l","d","_","1","0","0","0","2">>}
        commonFieldNames == {<<"s","t","o","r","y"," ","p","o","i","n","t","s">>, <<"a","s","s","i","g","n","e","e">>, <<"p","r","i","o","r","i","t","y">>, <<"l","a","b","e","l","s">>, <<"c","o","m","p","o","n","e","n","t">>,
                             <<"f","i","x"," ","v","e","r","s","i","o","n">>, <<"d","u","e"," ","d","a","t","e">>, <<"e","p","i","c">>, <<"s","p","r","i","n","t">>}
        systemFields == {<<"c","r","e","a","t","e","d">>, <<"u","p","d","a","t","e","d">>, <<"c","r","e","a","t","o","r">>, <<"r","e","p","o","r","t","e","r">>, <<"s","t","a","t","u","s">>, <<"r","e","s","o","l","u","t","i","o","n">>, <<"r","e","s","o","l","u","t","i","o","n","d","a","t","e">>,
                         <<"w","o","r","k","l","o","g">>, <<"a","t","t","a","c","h","m","e","n","t">>, <<"c","o","m","m","e","n","t">>, <<"i","s","s","u","e","l","i","n","k","s">>, <<"s","u","b","t","a","s","k","s">>, <<"p","a","r","e","n","t">>, <<"p","r","o","j","e","c","t">>, <<"i","s","s","u","e","t","y","p","e">>}
        isCommonlyUsedField(field) ==
            field.id \in commonFieldIds \/ \E name \in commonFieldNames : includes(toLowerCase(field.name), name)
        isProjectSpecificField(field) ==
            /\ Len(field.id) >= 12 /\ SubSeq(field.id, 1, 12) = <<"c","u","s","t","o","m","f","i","e","l","d","_">>
            /\ ~isCommonlyUsedField(field)
        isSystemField(field) ==
            field.id \in systemFields \/ includes(field.id, <<"t","i","m","e">>) \/ includes(field.id, <<"l","o","g">>)
        isOptionalStandard(field) == ~isCommonlyUsedField(field) /\ ~isProjectSpecificField(field) /\ ~isSystemField(field)
    IN [commonly_used |-> SelectSeq(fields, isCommonlyUsedField),
        project_specific |-> SelectSeq(fields, isProjectSpecificField),
        optional_standard |-> SelectSeq(fields, isOptionalStandard),
        system_fields |-> SelectSeq(fields, isSystemField)]

\* the applications of categorizeFields: to at most MaxFields distinct fields
\* among fields of every category, a time-tracking field and a parent field
\* named after the epic it links to
CategorizeCalls ==
    LET field(id, name) == [id |-> id, name |-> name, type |-> "text", required |-> FALSE, allowedValues |-> Undefined]
        pool == <<priorityField, severityField, epicField, teamField, field(<<"i","s","s","u","e","t","y","p","e">>, <<"I","s","s","u","e"," ","T","y","p","e">>),
                  field(<<"t","i","m","e","t","r","a","c","k","i","n","g">>, <<"T","i","m","e"," ","T","r","a","c","k","i","n","g">>), field(<<"e","n","v","i","r","o","n","m","e","n","t">>, <<"E","n","v","i","r","o","n","m","e","n","t">>),
                  field(<<"p","a","r","e","n","t">>, <<"P","a","r","e","n","t"," ","E","p","i","c">>)>>
        distinct(q) == \A a, b \in 1..Len(q) : a # b => q[a] # q[b]
    IN {[op |-> "categorizeFields", fields |-> [k \in 1..Len(q) |-> pool[q[k]]], status |-> "pending", ret |-> Null] :
          q \in {x \in SeqsUpTo(1..Len(pool), MaxFields) : distinct(x)}}

\* no run is in progress; a pure function is about to be applied
InitPure ==
    /\ description = <<>>
    /\ jiraFields = <<>>
    /\ fieldConfigs = <<>>
    /\ preferences = [defaultMethod |-> "ai", globalConfidenceThreshold |-> 70, requireConfirmationForAll |-> FALSE]
    /\ aiProvider = FALSE
    /\ apiKey = FALSE
    /\ pc = "idle"
    /\ RunInit
    /\ call \in AICalls \cup ThresholdCalls(FieldPool) \cup PatternCalls(PatternPool) \cup SuggestionCalls
                 \cup MetadataCalls \cup ParseErrorCalls \cup LegacyCalls(LegacyPool)
                 \cup CategorizeCalls
    /\ now \in IF call.op = "extractWithPatterns" THEN PatternClocks ELSE Clocks

run == <<description, jiraFields, fieldConfigs, preferences, aiProvider, apiKey, now,
         pc, i, buckets, counters, totalFields, calls, warnings, result>>

\* extractWithAI is applied to the provider's outcome
ApplyExtractWithAI ==
    /\ call.op = "extractWithAI" /\ call.status = "pending"
    /\ call' = [call EXCEPT !.status = "done", !.ret = extractWithAI(call.response)]
    /\ UNCHANGED run

\* the field is classified under the low and under the high threshold
CompareThresholds ==
    /\ call.op = "thresholds" /\ call.status = "pending"
    /\ call' = [call EXCEPT !.status = "done",
                            !.ret = [x \in {"low", "high"} |-> bucketAt(call, IF x = "low" THEN call.low ELSE call.high, now)]]
    /\ UNCHANGED run

\* extractWithPatterns is applied to a description and a list of fields
ApplyExtractWithPatterns ==
    /\ call.op = "extractWithPatterns" /\ call.status = "pending"
    /\ call' = [call EXCEPT !.status = "done", !.ret = extractWithPatterns(call.description, call.fields, now)]
    /\ UNCHANGED run

\* generateSuggestions is applied to a field and a description
ApplyGenerateSuggestions ==
    /\ call.op = "generateSuggestions" /\ call.status = "pending"
    /\ call' = [call EXCEPT !.status = "done", !.ret = generateSuggestions(call.field, call.description)]
    /\ UNCHANGED run

\* parseFieldMetadata is applied to a raw field map
ApplyParseFieldMetadata ==
    /\ call.op = "parseFieldMetadata" /\ call.status = "pending"
    /\ call' = [call EXCEPT !.status = "done", !.ret = parseFieldMetadata(call.fieldsData)]
    /\ UNCHANGED run

\* parseErrorForRequiredFields is applied to an error payload
ApplyParseError ==
    /\ call.op = "parseErrorForRequiredFields" /\ call.status = "pending"
    /\ call' = [call EXCEPT !.status = "done", !.ret = parseErrorForRequiredFields(call.errorData, now.year)]
    /\ UNCHANGED run

\* extractFieldValues is applied and its provider call settles
ApplyExtractFieldValues ==
    /\ call.op = "extractFieldValues" /\ call.status = "pending"
    /\ call' = [call EXCEPT !.status = "done",
                            !.ret = extractFieldValues(call.description, call.fields, call.provider, call.key, call.response, now)]
    /\ UNCHANGED run

\* categorizeFields is applied to a list of fields
ApplyCategorizeFields ==
    /\ call.op = "categorizeFields" /\ call.status = "pending"
    /\ call' = [call EXCEPT !.status = "done", !.ret = categorizeFields(call.fields)]
    /\ UNCHANGED run

NextPure ==
    \/ ApplyExtractWithAI
    \/ CompareThresholds
    \/ ApplyExtractWithPatterns
    \/ ApplyGenerateSuggestions
    \/ ApplyParseFieldMetadata
    \/ ApplyParseError
    \/ ApplyExtractFieldValues
    \/ ApplyCategorizeFields

SpecPure == InitPure /\ [][NextPure]_vars

(***************************************************************************)
(* Field discovery (JiraFieldService.discoverFields)                       *)
(*                                                                         *)
(* One run of discoverFields; its frame is the record call:                *)
(*   at         the request it is about to make, or "returned"             *)
(*   issueType  the issue type of mapWorkItemTypeToJiraIssueType           *)
(*   fields     the local variable fields                                  *)
(*   stored     the mappings of localStorage['jira-field-mappings']        *)
(*   ret        the value returned, Null for null                          *)
(* The outcome of a request is [k |-> "error"] when fetch or               *)
(* response.json() throws, [k |-> "status"] for a response that is not     *)
(* 2xx (with its body where the code reads it) and [k |-> "ok"] with the   *)
(* body otherwise.                                                         *)
(***************************************************************************)
\* mapWorkItemTypeToJiraIssueType (lines 1516-1537): the issue type, or Null
mapWorkItemTypeToJiraIssueType(workItemType, issueTypes) ==
    LET candidates == IF workItemType = "all" THEN <<<<"S","t","o","r","y">>, <<"E","p","i","c">>, <<"T","a","s","k">>, <<"B","u","g">>, <<"I","n","i","t","i","a","t","i","v","e">>>>
                      ELSE IF workItemType = "story" THEN <<<<"S","t","o","r","y">>, <<"U","s","e","r"," ","S","t","o","r","y">>, <<"T","a","s","k">>>>
                      ELSE IF workItemType = "epic" THEN <<<<"E","p","i","c">>>>
                      ELSE IF workItemType = "initiative" THEN <<<<"I","n","i","t","i","a","t","i","v","e">>, <<"E","p","i","c">>, <<"S","t","o","r","y">>>>
                      ELSE IF workItemType = "task" THEN <<<<"T","a","s","k">>, <<"S","t","o","r","y">>, <<"S","u","b","-","t","a","s","k">>>>
                      ELSE IF workItemType = "bug" THEN <<<<"B","u","g">>, <<"D","e","f","e","c","t">>, <<"I","s","s","u","e">>>>
                      ELSE <<>>
        matches(c) == {t \in 1..Len(issueTypes) : includes(toLowerCase(issueTypes[t].name), toLowerCase(candidates[c]))}
        found(cs) == IF cs # {} THEN issueTypes[Least(matches(Least(cs)))]
                     ELSE IF Len(issueTypes) > 0 THEN issueTypes[1]
                     ELSE Null
    IN found({c \in 1..Len(candidates) : matches(c) # {}})

\* the issue types a Jira instance answers with
IssueTypeLists ==
    LET type(id, name) == [id |-> id, name |-> name]
    IN {<<>>, <<type(<<"1","0","0","0","1">>, <<"S","t","o","r","y">>)>>, <<type(<<"1","0","0","0","4">>, <<"B","u","g">>), type(<<"1","0","0","0","0">>, <<"E","p","i","c">>)>>,
        <<type(<<"1","0","0","0","3">>, <<"S","u","b","-","t","a","s","k">>)>>}

\* discoverFields is called for a work item type
InitDiscovery ==
    /\ description = <<>>
    /\ jiraFields = <<>>
    /\ fieldConfigs = <<>>
    /\ preferences = [defaultMethod |-> "ai", globalConfidenceThreshold |-> 70, requireConfirmationForAll |-> FALSE]
    /\ aiProvider = FALSE
    /\ apiKey = FALSE
    /\ pc = "idle"
    /\ RunInit
    /\ now \in Clocks
    /\ call \in {[op |-> "discoverFields", workItemType |-> w, at |-> "getIssueTypes", issueType |-> Null,
                  fields |-> <<>>, stored |-> <<>>, ret |-> Null] :
                   w \in {"all", "story", "epic", "initiative", "task", "bug"}}

\* lines 1478-1485 with getIssueTypes (lines 848-868): a failed request gives
\* no issue types; without an issue type discoverFields returns null
GetIssueTypes ==
    /\ call.op = "discoverFields" /\ call.at = "getIssueTypes"
    /\ \E response \in {[k |-> "error"], [k |-> "status"]} \cup {[k |-> "ok", issueTypes |-> l] : l \in IssueTypeLists} :
         LET issueTypes == IF response.k = "ok" THEN response.issueTypes ELSE <<>>
             mapped(issueType) == IF issueType = Null THEN [call EXCEPT !.at = "returned", !.ret = Null]
                                  ELSE [call EXCEPT !.at = "getFieldsForIssueType", !.issueType = issueType]
         IN call' = mapped(mapWorkItemTypeToJiraIssueType(call.workItemType, issueTypes))
    /\ UNCHANGED run

\* line 1490 with getFieldsForIssueType (lines 920-974): no project key, a
\* request that throws or a response that is not 2xx give no fields; the
\* fields of the metadata are parsed otherwise (an empty map when the
\* metadata names no project or issue type)
GetFieldsForIssueType ==
    /\ call.op = "discoverFields" /\ call.at = "getFieldsForIssueType"
    /\ \E response \in {[k |-> "noProjectKey"], [k |-> "error"], [k |-> "status"]}
                       \cup {[k |-> "ok", fieldsData |-> m] : m \in RawFieldMaps(MaxRawFields - 1)} :
         LET got(fields) == [call EXCEPT !.fields = fields,
                                         !.at = IF Len(fields) = 0 THEN "discoverFieldsByTestCreation" ELSE "saveFieldMapping"]
         IN call' = got(IF response.k = "ok" THEN parseFieldMetadata(response.fieldsData) ELSE <<>>)
    /\ UNCHANGED run

\* lines 1493-1496 with discoverFieldsByTestCreation (lines 1078-1112)
DiscoverFieldsByTestCreation ==
    /\ call.op = "discoverFields" /\ call.at = "discoverFieldsByTestCreation"
    /\ \E response \in {[k |-> "error"], [k |-> "ok"]} \cup {[k |-> "status", data |-> e] : e \in ErrorPayloads} :
         LET minimal(id, name, type, required) ==
                 [id |-> id, name |-> name, type |-> type, required |-> required, allowedValues |-> Undefined, description |-> Undefined]
         IN call' = [call EXCEPT !.at = "saveFieldMapping",
                                 !.fields = IF response.k = "ok"
                                            THEN <<minimal(<<"s","u","m","m","a","r","y">>, <<"S","u","m","m","a","r","y">>, "text", TRUE),
                                                   minimal(<<"d","e","s","c","r","i","p","t","i","o","n">>, <<"D","e","s","c","r","i","p","t","i","o","n">>, "textarea", FALSE)>>
                                            ELSE IF response.k = "status" THEN parseErrorForRequiredFields(response.data, now.year)
                                            ELSE <<>>]
    /\ UNCHANGED run

\* lines 1498-1508 with saveFieldMapping (lines 1540-1555): the mapping
\* replaces the stored one of its work item type and is returned
SaveFieldMapping ==
    /\ call.op = "discoverFields" /\ call.at = "saveFieldMapping"
    /\ LET mapping == [workItemType |-> call.workItemType, issueType |-> call.issueType.name,
                       fields |-> call.fields, discoveredAt |-> now]
           other(m) == m.workItemType # call.workItemType
       IN call' = [call EXCEPT !.at = "returned", !.ret = mapping,
                               !.stored = Append(SelectSeq(call.stored, other), mapping)]
    /\ UNCHANGED run

NextDiscovery ==
    \/ GetIssueTypes
    \/ GetFieldsForIssueType
    \/ DiscoverFieldsByTestCreation
    \/ SaveFieldMapping

SpecDiscovery == InitDiscovery /\ [][NextDiscovery]_vars

(***************************************************************************)
(* Concurrent runs of extractFieldValuesWithConfig                         *)
(*                                                                         *)
(* Two runs on the one service instance (lines 19-26) and the stored       *)
(* configuration, in the record call:                                      *)
(*   stored   the configuration templateService.getFieldExtractionConfig   *)
(*            returns when it is called                                    *)
(*   runs     the frame of each run: its arguments, its constants          *)
(*            fieldConfigs and preferences (line 38), its locals (lines    *)
(*            43-53), its position pc and i, the provider outcomes it has  *)
(*            received (answers), what happened while it was suspended     *)
(*            (overlapped), and its result                                 *)
(* A run gives way to the other run at the awaits of lines 65 and 85, and  *)
(* to the configuration UI while it awaits the provider.                   *)
(***************************************************************************)
\* a variant: the configuration read again from the store at each use
readConfig_live(f, stored) == stored

\* the configuration a run works with: the constants bound at line 38
readConfig(f, stored) == [fieldConfigs |-> f.fieldConfigs, preferences |-> f.preferences]

\* The run of frame f goes on (lines 56-129).  At "loop" it performs the
\* iteration of field i up to the provider call, if one is made, or returns
\* the result when the list is exhausted; at "await" the provider call
\* settles with response and the iteration is completed.
processField(f, stored, response) ==
    LET field == f.jiraFields[f.i]
        prefs == readConfig(f, stored).preferences
        cfg == findConfig(readConfig(f, stored).fieldConfigs, field.id)
        callsAI == /\ f.provider /\ f.key
                   /\ IF cfg = Undefined THEN prefs.defaultMethod = "ai" ELSE cfg.extractionMethod = "ai"
        counted == [f EXCEPT !.totalFields = @ + 1]
        classified(g, bucket, extractedValue, n) ==
            [g EXCEPT !.autoApplied = IF bucket = "auto" THEN mapSet(@, field.id, extractedValue.value) ELSE @,
                      !.requiresConfirmation = IF bucket = "confirmation"
                                               THEN mapSet(@, field.id, makeCandidate(field, extractedValue, f.description)) ELSE @,
                      !.manualFields = IF bucket = "manual" THEN Append(@, field.id) ELSE @,
                      !.autoAppliedCount = @ + n.auto, !.confirmationCount = @ + n.confirmation, !.manualCount = @ + n.manual,
                      !.pc = "loop", !.i = @ + 1]
        configured(g, extractedValue) ==
            classified(g, configuredBucket(extractedValue, cfg, prefs), extractedValue,
                       configuredCounts(configuredBucket(extractedValue, cfg, prefs)))
        defaults(g, extractedValue) ==
            classified(g, defaultsBucket(extractedValue, prefs), extractedValue, defaultsCounts(defaultsBucket(extractedValue, prefs)))
        extracted(g) ==
            IF cfg = Undefined
            THEN defaults(g, extractSingleFieldWithDefaults(f.description, field, prefs, f.provider, f.key, response, f.clock).value)
            ELSE configured(g, extractSingleFieldValue(f.description, field, cfg, f.provider, f.key, response, f.clock).value)
    IN IF f.pc = "await" THEN extracted([f EXCEPT !.answers = Append(@, response)])
       ELSE IF f.i > Len(f.jiraFields)
       THEN [f EXCEPT !.pc = "returned",
                      !.result = [status |-> "returned", autoApplied |-> f.autoApplied,
                                  requiresConfirmation |-> f.requiresConfirmation,
                                  manualFields |-> f.manualFields, skippedFields |-> f.skippedFields,
                                  extractionSummary |-> [totalFields |-> f.totalFields, autoAppliedCount |-> f.autoAppliedCount,
                                                         confirmationCount |-> f.confirmationCount, manualCount |-> f.manualCount,
                                                         skippedCount |-> f.skippedCount]]]
       ELSE IF ~field.required /\ cfg = Undefined THEN [f EXCEPT !.i = @ + 1]
       ELSE IF cfg # Undefined /\ ~cfg.extractionEnabled
       THEN [counted EXCEPT !.skippedFields = Append(@, field.id), !.skippedCount = @ + 1, !.i = @ + 1]
       ELSE IF cfg # Undefined /\ (cfg.extractionMethod = "manual" \/ cfg.extractionMode = "manual-only")
       THEN [counted EXCEPT !.manualFields = Append(@, field.id), !.manualCount = @ + 1, !.i = @ + 1]
       ELSE IF callsAI THEN [counted EXCEPT !.pc = "await"]
       ELSE extracted(counted)

\* the configurations the UI stores for the work item type: none, one that
\* extracts both fields, and one that disables the first and confirms all
StoredConfigs ==
    {[fieldConfigs |-> <<>>, preferences |-> [defaultMethod |-> "ai", globalConfidenceThreshold |-> 50, requireConfirmationForAll |-> FALSE]],
     [fieldConfigs |-> <<configOf(priorityField.id, setting(TRUE, "ai", "auto-apply", 50)),
                         configOf(componentsField.id, setting(TRUE, "pattern", "always-confirm", 50))>>,
      preferences |-> [defaultMethod |-> "pattern", globalConfidenceThreshold |-> 90, requireConfirmationForAll |-> FALSE]],
     [fieldConfigs |-> <<configOf(priorityField.id, setting(FALSE, "ai", "auto-apply", 50)),
                         configOf(componentsField.id, setting(TRUE, "ai", "auto-apply", 90))>>,
      preferences |-> [defaultMethod |-> "ai", globalConfidenceThreshold |-> 50, requireConfirmationForAll |-> TRUE]]}

\* no run has been started; a configuration is stored
InitConcurrent ==
    /\ description = <<>>
    /\ jiraFields = <<>>
    /\ fieldConfigs = <<>>
    /\ preferences = [defaultMethod |-> "ai", globalConfidenceThreshold |-> 70, requireConfirmationForAll |-> FALSE]
    /\ aiProvider = FALSE
    /\ apiKey = FALSE
    /\ pc = "idle"
    /\ RunInit
    /\ now \in Clocks
    /\ \E stored \in StoredConfigs :
         call = [op |-> "concurrent", stored |-> stored,
                 runs |-> [r \in {"first", "second"} |->
                             [pc |-> "idle", description |-> <<>>, jiraFields |-> <<>>, provider |-> FALSE, key |-> FALSE, clock |-> now,
                              fieldConfigs |-> <<>>, preferences |-> stored.preferences, i |-> 1,
                              autoApplied |-> <<>>, requiresConfirmation |-> <<>>, manualFields |-> <<>>, skippedFields |-> <<>>,
                              totalFields |-> 0, autoAppliedCount |-> 0, confirmationCount |-> 0, manualCount |-> 0, skippedCount |-> 0,
                              answers |-> <<>>, overlapped |-> {}, result |-> [status |-> "pending"]]]]

\* the other runs, when suspended, see what happens meanwhile
meanwhile(runs, r, what) ==
    [s \in DOMAIN runs |-> IF s # r /\ runs[s].pc = "await" THEN [runs[s] EXCEPT !.overlapped = @ \cup {what}] ELSE runs[s]]

\* lines 31-53: a run is called with a provider and a key and reads the
\* stored configuration
StartRun(r) ==
    /\ call.op = "concurrent" /\ call.runs[r].pc = "idle"
    /\ \E d \in Descriptions :
         call' = [call EXCEPT !.runs = [meanwhile(@, r, "run") EXCEPT ![r] =
                     [@ EXCEPT !.pc = "loop", !.description = d, !.jiraFields = <<priorityField, componentsField>>,
                               !.provider = TRUE, !.key = TRUE,
                               !.fieldConfigs = call.stored.fieldConfigs, !.preferences = call.stored.preferences]]]
    /\ UNCHANGED run

\* lines 56-129: the run performs one more iteration, up to the provider
\* call if it makes one, or returns
StepRun(r) ==
    /\ call.op = "concurrent" /\ call.runs[r].pc = "loop"
    /\ call' = [call EXCEPT !.runs = [meanwhile(@, r, "run") EXCEPT ![r] = processField(call.runs[r], call.stored, [k |-> "error"])]]
    /\ UNCHANGED run

\* lines 144 and 241: the provider call of the run settles
ResumeRun(r) ==
    /\ call.op = "concurrent" /\ call.runs[r].pc = "await"
    /\ \E response \in {[k |-> "error"], [k |-> "json", result |-> [t |-> "obj", extractions |-> Arr(<<>>)]],
                        [k |-> "json", result |-> [t |-> "obj", extractions |-> Arr(<<aiEntry(call.runs[r].jiraFields[call.runs[r].i].id, 95)>>)]]} :
         call' = [call EXCEPT !.runs = [meanwhile(@, r, "run") EXCEPT ![r] = processField(call.runs[r], call.stored, response)]]
    /\ UNCHANGED run

\* the configuration UI stores another configuration while a run is suspended
EditConfig ==
    /\ call.op = "concurrent"
    /\ \E r \in DOMAIN call.runs : call.runs[r].pc = "await"
    /\ \E stored \in StoredConfigs \ {call.stored} :
         call' = [call EXCEPT !.stored = stored, !.runs = meanwhile(@, "ui", "edit")]
    /\ UNCHANGED run

NextConcurrent ==
    \/ \E r \in {"first", "second"} : StartRun(r)
    \/ \E r \in {"first", "second"} : StepRun(r)
    \/ \E r \in {"first", "second"} : ResumeRun(r)
    \/ EditConfig

SpecConcurrent == InitConcurrent /\ [][NextConcurrent]_vars

(***************************************************************************)
(* Properties                                                              *)
(***************************************************************************)
\* the elements of a list
Range(seq) == {seq[k] : k \in 1..Len(seq)}

\* the id and the configuration of the field at position j of the list
idAt(j) == jiraFields[j].id

configAt(j) == findConfig(fieldConfigs, idAt(j))

\* the field at position j has been through its iteration of the loop
Processed(j) == j \in 1..Len(jiraFields) /\ j < i

\* the buckets that hold the field id, given the four buckets
bucketsHolding(id, auto, confirmation, manual, skipped) ==
    (IF id \in DOMAIN auto THEN {"auto"} ELSE {})
    \cup (IF id \in DOMAIN confirmation THEN {"confirmation"} ELSE {})
    \cup (IF id \in Range(manual) THEN {"manual"} ELSE {})
    \cup (IF id \in Range(skipped) THEN {"skipped"} ELSE {})

\* the buckets of the run that hold the field id
bucketsOf(id) == bucketsHolding(id, autoApplied, requiresConfirmation, manualFields, skippedFields)

\* the buckets of the returned result that hold the field id
returnedBucketsOf(id) ==
    bucketsHolding(id, result.autoApplied, result.requiresConfirmation, result.manualFields, result.skippedFields)

Returned == result.status = "returned"

\* the extractors invoked for the field id
extractorsOf(id) == {calls[k].extractor : k \in {x \in 1..Len(calls) : calls[x].fieldId = id}}

\* the field at position j is configured, enabled and not left to the user
extracts(j) ==
    /\ configAt(j) # Undefined
    /\ configAt(j).extractionEnabled
    /\ configAt(j).extractionMethod # "manual" /\ configAt(j).extractionMode # "manual-only"

\* the field at position j is required and has no configuration
usesDefaults(j) == configAt(j) = Undefined /\ jiraFields[j].required

\* C1: in every returned result the four counts of extractionSummary add up
\* to its totalFields.
SummaryCountsAddUp ==
    Returned =>
        result.extractionSummary.totalFields =
            result.extractionSummary.autoAppliedCount + result.extractionSummary.confirmationCount
            + result.extractionSummary.manualCount + result.extractionSummary.skippedCount

ConfirmationForAllEmptiesAutoApplied ==
    preferences.requireConfirmationForAll =>
        /\ DOMAIN autoApplied = {}
        /\ Returned => DOMAIN result.autoApplied = {}

\* requireConfirmationForAll is set and the result holds for confirmation a
\* configured auto-apply field whose confidence reaches its threshold and a
\* field without configuration whose confidence reaches 0.8
ConfirmationForAllWitness ==
    /\ Returned
    /\ preferences.requireConfirmationForAll
    /\ \E j \in 1..Len(jiraFields) :
        /\ extracts(j) /\ configAt(j).extractionMode = "auto-apply"
        /\ idAt(j) \in DOMAIN result.requiresConfirmation
        /\ result.requiresConfirmation[idAt(j)].confidence >= configAt(j).confidenceThreshold
    /\ \E j \in 1..Len(jiraFields) :
        /\ usesDefaults(j)
        /\ idAt(j) \in DOMAIN result.requiresConfirmation
        /\ result.requiresConfirmation[idAt(j)].confidence >= 80

\* auto-applied > confirmation > manual
Rank(bucket) == IF bucket = "auto" THEN 2 ELSE IF bucket = "confirmation" THEN 1 ELSE 0

\* C4: with everything else the same, the bucket of a field under the higher
\* of two thresholds is never more automatic than under the lower one, for
\* the confidenceThreshold of its configuration and for
\* globalConfidenceThreshold when it has no configuration.
ThresholdMonotone ==
    (call.op = "thresholds" /\ call.status = "done") => Rank(call.ret.high) <= Rank(call.ret.low)

\* a configured field auto-applied under the low threshold and left to the
\* user under the high one
ThresholdMonotoneWitness ==
    /\ call.op = "thresholds" /\ call.status = "done"
    /\ call.settings # Undefined
    /\ call.ret.low = "auto" /\ call.ret.high = "manual"

\* C5: an exception of the AI provider or of the pattern extractor never
\* leaves the run: the field it was raised for is in manualFields and in no
\* other bucket, and the returned result has a bucket for every field that
\* is required or configured, the later ones included.
FailureIsContained ==
    /\ pc # "thrown"
    /\ result.status # "thrown"
    /\ \A k \in 1..Len(warnings) : bucketsOf(warnings[k]) = {"manual"}
    /\ Returned =>
        \A j \in 1..Len(jiraFields) :
            (jiraFields[j].required \/ configAt(j) # Undefined) => Cardinality(returnedBucketsOf(idAt(j))) = 1

\* the extraction of the first field failed and the result has the second
\* field in another bucket than manualFields
FailureIsContainedWitness ==
    /\ Returned
    /\ Len(jiraFields) = 2
    /\ Len(warnings) > 0 /\ warnings[1] = idAt(1)
    /\ returnedBucketsOf(idAt(1)) = {"manual"}
    /\ returnedBucketsOf(idAt(2)) \in {{"auto"}, {"confirmation"}}

\* C6: a field whose configuration has extractionEnabled false has no
\* extractor invoked for it, is never in autoApplied, requiresConfirmation
\* or manualFields, and is in skippedFields once the loop has passed it.
DisabledFieldIsSkipped ==
    \A j \in 1..Len(jiraFields) :
        (configAt(j) # Undefined /\ ~configAt(j).extractionEnabled) =>
            /\ extractorsOf(idAt(j)) = {}
            /\ bucketsOf(idAt(j)) \subseteq {"skipped"}
            /\ Processed(j) => bucketsOf(idAt(j)) = {"skipped"}
            /\ Returned => returnedBucketsOf(idAt(j)) = {"skipped"}

\* a required field with the AI method and auto-apply mode, a provider and a
\* key, but extractionEnabled false, is in skippedFields of the result
DisabledFieldIsSkippedWitness ==
    /\ Returned
    /\ aiProvider /\ apiKey
    /\ \E j \in 1..Len(jiraFields) :
        /\ jiraFields[j].required
        /\ configAt(j) # Undefined /\ ~configAt(j).extractionEnabled
        /\ configAt(j).extractionMethod = "ai" /\ configAt(j).extractionMode = "auto-apply"
        /\ returnedBucketsOf(idAt(j)) = {"skipped"}

\* C7: a configured, enabled field whose method is manual or whose mode is
\* manual-only has no extractor invoked for it, is never in autoApplied,
\* requiresConfirmation or skippedFields, and is in manualFields once the
\* loop has passed it.
ManualFieldIsManual ==
    \A j \in 1..Len(jiraFields) :
        (/\ configAt(j) # Undefined /\ configAt(j).extractionEnabled
         /\ configAt(j).extractionMethod = "manual" \/ configAt(j).extractionMode = "manual-only") =>
            /\ extractorsOf(idAt(j)) = {}
            /\ bucketsOf(idAt(j)) \subseteq {"manual"}
            /\ Processed(j) => bucketsOf(idAt(j)) = {"manual"}
            /\ Returned => returnedBucketsOf(idAt(j)) = {"manual"}

\* a field with the AI method, a provider and a key, but manual-only mode, is
\* in manualFields of the result
ManualFieldIsManualWitness ==
    /\ Returned
    /\ aiProvider /\ apiKey
    /\ \E j \in 1..Len(jiraFields) :
        /\ configAt(j) # Undefined /\ configAt(j).extractionEnabled
        /\ configAt(j).extractionMethod = "ai" /\ configAt(j).extractionMode = "manual-only"
        /\ returnedBucketsOf(idAt(j)) = {"manual"}

\* the provider outcomes the extraction of the current field can meet: any
\* outcome when the provider has been called, none to read when it is not
outcomesHere == IF pc \in {"awaitConfigured", "awaitDefaults"} THEN AIResponses(jiraField.id) ELSE {[k |-> "error"]}

\* the run is about to extract a configured field, or waits for the provider
\* to do so
ExtractingConfigured ==
    \/ pc = "awaitConfigured"
    \/ Extracting /\ ~(config.extractionMethod = "ai" /\ aiProvider /\ apiKey)

\* the run is about to extract a field without configuration, or waits for
\* the provider to do so
ExtractingDefaults ==
    \/ pc = "awaitDefaults"
    \/ InLoop /\ config = Undefined /\ jiraField.required /\ ~(preferences.defaultMethod = "ai" /\ aiProvider /\ apiKey)

\* the rule of C8 for a candidate of confidence c under the configuration cfg
configuredRule(cfg, c) ==
    IF cfg.extractionMode = "auto-apply" /\ c >= cfg.confidenceThreshold /\ ~preferences.requireConfirmationForAll
    THEN "auto" ELSE "confirmation"

\* C8: a configured, enabled, non-manual field with a candidate goes to
\* autoApplied iff its mode is auto-apply, the candidate's confidence is at
\* least its threshold and requireConfirmationForAll is off, and to
\* requiresConfirmation in every other case.
ConfiguredCandidateRule ==
    /\ ExtractingConfigured =>
        \A response \in outcomesHere :
            LET extractedValue == extractSingleFieldValue(description, jiraField, config, aiProvider, apiKey, response, now).value
            IN extractedValue # Null =>
                configuredBucket(extractedValue, config, preferences) = configuredRule(config, extractedValue.confidence)
    /\ \A j \in 1..Len(jiraFields) :
        (Processed(j) /\ extracts(j)) =>
            /\ Cardinality(bucketsOf(idAt(j))) = 1
            /\ idAt(j) \in DOMAIN autoApplied =>
                configAt(j).extractionMode = "auto-apply" /\ ~preferences.requireConfirmationForAll
            /\ idAt(j) \in DOMAIN requiresConfirmation =>
                configuredRule(configAt(j), requiresConfirmation[idAt(j)].confidence) = "confirmation"

\* an always-confirm field whose candidate reaches the threshold is held for
\* confirmation although requireConfirmationForAll is off
ConfiguredCandidateWitness ==
    /\ Returned
    /\ ~preferences.requireConfirmationForAll
    /\ \E j \in 1..Len(jiraFields) :
        /\ extracts(j) /\ configAt(j).extractionMode = "always-confirm"
        /\ idAt(j) \in DOMAIN result.requiresConfirmation
        /\ result.requiresConfirmation[idAt(j)].confidence >= configAt(j).confidenceThreshold

\* the rule of C9 for the extracted value, Null when there is no candidate
defaultsRule(extractedValue) ==
    IF extractedValue # Null /\ extractedValue.confidence >= preferences.globalConfidenceThreshold
       /\ extractedValue.confidence >= 80 /\ ~preferences.requireConfirmationForAll
    THEN "auto"
    ELSE IF extractedValue # Null /\ extractedValue.confidence >= preferences.globalConfidenceThreshold
    THEN "confirmation"
    ELSE "manual"

\* C9: a required field without configuration, whose candidate comes from
\* the AI only when defaultMethod is ai and a provider and key exist, goes to
\* autoApplied iff the confidence c is at least globalConfidenceThreshold and
\* at least 0.8 and requireConfirmationForAll is off, else to
\* requiresConfirmation iff c is at least globalConfidenceThreshold, else,
\* or without candidate, to manualFields.
DefaultsCandidateRule ==
    /\ ExtractingDefaults =>
        \A response \in outcomesHere :
            LET extractedValue == extractSingleFieldWithDefaults(description, jiraField, preferences, aiProvider, apiKey, response, now).value
            IN /\ defaultsBucket(extractedValue, preferences) = defaultsRule(extractedValue)
               /\ (extractedValue # Null /\ extractedValue.extractionMethod = "ai") =>
                    (preferences.defaultMethod = "ai" /\ aiProvider /\ apiKey)
    /\ \A j \in 1..Len(jiraFields) :
        (Processed(j) /\ usesDefaults(j)) =>
            /\ Cardinality(bucketsOf(idAt(j))) = 1
            /\ idAt(j) \in DOMAIN autoApplied => ~preferences.requireConfirmationForAll
            /\ idAt(j) \in DOMAIN requiresConfirmation =>
                defaultsRule(requiresConfirmation[idAt(j)]) = "confirmation"

\* a field without configuration whose candidate reaches
\* globalConfidenceThreshold but not 0.8 is held for confirmation although
\* requireConfirmationForAll is off
DefaultsCandidateWitness ==
    /\ Returned
    /\ ~preferences.requireConfirmationForAll
    /\ \E j \in 1..Len(jiraFields) :
        /\ usesDefaults(j)
        /\ idAt(j) \in DOMAIN result.requiresConfirmation
        /\ result.requiresConfirmation[idAt(j)].confidence < 80

\* the entries of the provider's answer of the call, none when the answer
\* has no "extractions" array
answered(c) ==
    IF c.response.k = "json" /\ c.response.result # Null /\ c.response.result.extractions.t = "arr"
    THEN c.response.result.extractions.a ELSE <<>>

\* the entry e of the answer has a fieldId, a value that is not null and a
\* confidence above 0.5, and x is that entry tagged 'ai'
returnedFrom(e, x) ==
    /\ e # Null
    /\ e.fieldId \notin {Undefined, Null, Str(<<>>)}
    /\ e.value # Null
    /\ e.confidence.t = "num" /\ e.confidence.n > 50
    /\ x = [fieldId |-> e.fieldId.s, value |-> e.value, confidence |-> e.confidence.n, extractionMethod |-> "ai"]

\* C10: every entry extractWithAI returns is an entry of the provider's
\* extractions array with a fieldId, a value that is not null and a
\* confidence strictly above 0.5, tagged with extractionMethod 'ai'.
AIReturnsOnlyConfidentEntries ==
    (call.op = "extractWithAI" /\ call.status = "done") =>
        \A k \in 1..Len(call.ret.out) :
            /\ call.ret.out[k].extractionMethod = "ai"
            /\ \E j \in 1..Len(answered(call)) : returnedFrom(answered(call)[j], call.ret.out[k])

\* extractWithAI returned the entry of an answer
AIReturnsWitness ==
    /\ call.op = "extractWithAI" /\ call.status = "done"
    /\ Len(answered(call)) = 1
    /\ Len(call.ret.out) = 1

\* the provider call of c succeeded and its text is blank, is rejected by
\* JSON.parse, or parses to a value without an "extractions" array
malformed(c) ==
    \/ c.response.k \in {"empty", "notjson"}
    \/ c.response.k = "json" /\ (c.response.result = Null \/ c.response.result.extractions.t # "arr")

\* C11: when the provider call succeeds and its response is blank, is not
\* parseable as JSON or has no "extractions" array, extractWithAI returns an
\* empty list and does not throw.
MalformedResponseYieldsNothing ==
    (call.op = "extractWithAI" /\ call.status = "done" /\ malformed(call)) =>
        (~call.ret.threw /\ call.ret.out = <<>>)


\* extractWithPatterns has been applied to the fields f
patternsApplied(f) == call.op = "extractWithPatterns" /\ call.status = "done" /\ call.fields = f

\* the entry of the pattern extractor for a field
patternEntry(field, value, confidence) ==
    [fieldId |-> field.id, value |-> value, confidence |-> confidence, extractionMethod |-> "pattern"]

\* C14: for the priority field with allowed values Highest, High, Medium,
\* Low, Lowest, a text whose first priority word is a synonym yields the
\* allowed value of the synonym with confidence 0.8: critical gives Highest,
\* major High, minor Low and trivial Lowest.
PrioritySynonymsMapped ==
    patternsApplied(<<priorityField>>) =>
        \A pair \in {<<<<"c","r","i","t","i","c","a","l">>, <<"H","i","g","h","e","s","t">>>>, <<<<"m","a","j","o","r">>, <<"H","i","g","h">>>>,
                     <<<<"m","i","n","o","r">>, <<"L","o","w">>>>, <<<<"t","r","i","v","i","a","l">>, <<"L","o","w","e","s","t">>>>} :
            FirstWordIn(toLowerCase(call.description), PriorityVocabulary) = pair[1]
                => call.ret = [threw |-> FALSE, out |-> <<patternEntry(priorityField, Str(pair[2]), 80)>>]

\* C16: for a field whose name contains 'epic', a text containing an
\* upper-case-letters-hyphen-digits token yields that token with confidence 0.8.
EpicTokenExtracted ==
    (patternsApplied(<<epicField>>) /\ epicMatch(call.description) # <<>>) =>
        call.ret = [threw |-> FALSE, out |-> <<patternEntry(epicField, Str(epicMatch(call.description)), 80)>>]

\* the entries of extractWithPatterns for each field of the list on its own,
\* concatenated
RECURSIVE perField(_, _, _)
perField(d, fields, clock) ==
    IF fields = <<>> THEN <<>>
    ELSE extractWithPatterns(d, <<Head(fields)>>, clock).out \o perField(d, Tail(fields), clock)

\* C20: the result of extractWithPatterns for a list of fields is the
\* concatenation of its results for each field alone, in input order: no
\* field removes the entry of another.
PatternsArePerField ==
    (call.op = "extractWithPatterns" /\ call.status = "done") =>
        call.ret.out = perField(call.description, call.fields, now)

\* the value 'Qn YYYY' of the leftmost match of quarterPatterns[p] in d, <<>>
\* when the pattern does not match; a bare quarter takes the year of the clock
quarterCandidate(p, d, clock) ==
    LET at(j) == quarterPatternAt(p, d, j)
    IN quarterValueOf(Leftmost(1, Len(d), at), clock)

\* the result the fallback chain prescribes for the quarter field f
quarterChain(f, d, clock) ==
    LET allowed(v) == f.allowedValues.t = "arr" /\ Str(v) \in Range(f.allowedValues.a)
        inCurrent(year) == <<"Q">> \o toString(CHOOSE q \in 1..4 : 3 * (q - 1) < clock.month /\ clock.month <= 3 * q) \o <<" ">> \o year
        last == IF allowed(inCurrent(toString(clock.year))) THEN <<patternEntry(f, Str(inCurrent(toString(clock.year))), 40)>> ELSE <<>>
        byYear(y) == IF y # <<>> /\ allowed(inCurrent(y)) THEN <<patternEntry(f, Str(inCurrent(y)), 60)>> ELSE last
        chain(explicit) == IF explicit # {} THEN <<patternEntry(f, Str(quarterCandidate(Least(explicit), d, clock)), 80)>>
                           ELSE byYear(yearMatch(d))
    IN chain({p \in 1..6 : quarterCandidate(p, d, clock) # <<>> /\ allowed(quarterCandidate(p, d, clock))})

\* extractWithPatterns has been applied to one quarter field
quarterApplied ==
    /\ call.op = "extractWithPatterns" /\ call.status = "done"
    /\ Len(call.fields) = 1 /\ call.fields[1].id = <<"c","u","s","t","o","m","f","i","e","l","d","_","2","6","3","6","2">>

\* C15: for a quarter field the result is the value of the first explicit
\* quarter pattern that is in allowedValues, with confidence 0.8; else the
\* current quarter of the year found in the text, if allowed, with 0.6; else
\* the current quarter of the current year, if allowed, with 0.4; else no
\* candidate.  Every value returned is in allowedValues, and a field without
\* allowedValues gets no candidate.
QuarterFallbackChain ==
    quarterApplied =>
        /\ call.ret = [threw |-> FALSE, out |-> quarterChain(call.fields[1], call.description, now)]
        /\ \A k \in 1..Len(call.ret.out) :
               call.fields[1].allowedValues.t = "arr" /\ call.ret.out[k].value \in Range(call.fields[1].allowedValues.a)
        /\ call.fields[1].allowedValues = Undefined => call.ret.out = <<>>

\* an explicit quarter that is not allowed gave way to the current quarter of
\* the year of the text
QuarterFallbackWitness ==
    /\ quarterApplied
    /\ quarterCandidate(1, call.description, now) # <<>>
    /\ Len(call.ret.out) = 1 /\ call.ret.out[1].confidence = 60

\* generateSuggestions has been applied
suggested == call.op = "generateSuggestions" /\ call.status = "done"

\* the allowed values of the field of the call
offered == IF call.field.allowedValues.t = "arr" THEN call.field.allowedValues.a ELSE <<>>

\* the position of the value v among the allowed values, which are distinct
offeredAt(v) == CHOOSE j \in 1..Len(offered) : offered[j] = v

\* the score of the allowed value at position j for the description of the call
scoreAt(j) == suggestionScore(call.field, toLowerCase(call.description), suggestionText(offered[j]))

\* the allowed value at position a is ranked before the one at position b
rankedBefore(a, b) == scoreAt(a) > scoreAt(b) \/ (scoreAt(a) = scoreAt(b) /\ a < b)

\* C17: generateSuggestions returns only allowed values of score above 0, by
\* descending score with ties in the order of allowedValues, at most 5 of
\* them, the best ones; without allowedValues it returns an empty list.
SuggestionsRanked ==
    suggested =>
        /\ call.field.allowedValues = Undefined => call.ret = <<>>
        /\ Len(call.ret) <= 5
        /\ \A k \in 1..Len(call.ret) : call.ret[k] \in Range(offered) /\ scoreAt(offeredAt(call.ret[k])) > 0
        /\ \A k \in 1..(Len(call.ret) - 1) : rankedBefore(offeredAt(call.ret[k]), offeredAt(call.ret[k + 1]))
        /\ \A j \in 1..Len(offered) :
               (scoreAt(j) > 0 /\ offered[j] \notin Range(call.ret))
                   => (Len(call.ret) = 5 /\ rankedBefore(offeredAt(call.ret[5]), j))

\* five suggestions with a tie among them, and a scored value left out
SuggestionsRankedWitness ==
    /\ suggested
    /\ Len(call.ret) = 5
    /\ scoreAt(offeredAt(call.ret[1])) = scoreAt(offeredAt(call.ret[2]))
    /\ scoreAt(offeredAt(call.ret[2])) > scoreAt(offeredAt(call.ret[3]))
    /\ \E j \in 1..Len(offered) : scoreAt(j) > 0 /\ offered[j] \notin Range(call.ret)

\* parseFieldMetadata has been applied
parsed == call.op = "parseFieldMetadata" /\ call.status = "done"

\* the name a is not after the name b in the alphabet, case ignored: by the
\* first character that differs, a space before the digits before the letters
RECURSIVE notAfter(_, _)
notAfter(a, b) ==
    LET place(c) == CHOOSE k \in 1..37 : (<<" ">> \o DigitChars \o LowerChars)[k] = LowerChar(c)
    IN IF a = <<>> THEN TRUE
       ELSE IF b = <<>> THEN FALSE
       ELSE IF place(Head(a)) # place(Head(b)) THEN place(Head(a)) < place(Head(b))
       ELSE notAfter(Tail(a), Tail(b))

\* the raw maps with the entries of m in any order
reordered(m) ==
    {[k \in 1..Len(m) |-> m[p[k]]] : p \in {q \in [1..Len(m) -> 1..Len(m)] : \A a, b \in 1..Len(m) : a # b => q[a] # q[b]}}

\* the display names of the entries of the raw map m are distinct
distinctNames(m) ==
    \A a, b \in 1..Len(m) :
        a # b => (IF truthy(m[a].info.name) THEN m[a].info.name.s ELSE m[a].id)
                 # (IF truthy(m[b].info.name) THEN m[b].info.name.s ELSE m[b].id)

\* C18: parseFieldMetadata returns one descriptor per raw field id, every
\* required field before every non-required one and, within each group, in
\* alphabetical order of display name; when the names are distinct the
\* result is the same for every iteration order of the raw map.
MetadataSorted ==
    parsed =>
        /\ Len(call.ret) = Len(call.fieldsData)
        /\ \A k \in 1..Len(call.fieldsData) :
               Cardinality({j \in 1..Len(call.ret) : call.ret[j].id = call.fieldsData[k].id}) = 1
        /\ \A a, b \in 1..Len(call.ret) :
               a < b => /\ call.ret[a].required \/ ~call.ret[b].required
                        /\ call.ret[a].required = call.ret[b].required => notAfter(call.ret[a].name, call.ret[b].name)
        /\ distinctNames(call.fieldsData) =>
               \A m \in reordered(call.fieldsData) : parseFieldMetadata(m) = call.ret

\* a raw map that lists an optional field first and two required fields in
\* reverse alphabetical order
MetadataSortedWitness ==
    /\ parsed
    /\ Len(call.fieldsData) = 3
    /\ ~truthy(call.fieldsData[1].info.required)
    /\ truthy(call.fieldsData[2].info.required) /\ truthy(call.fieldsData[3].info.required)
    /\ call.ret[1].id = call.fieldsData[3].id /\ call.ret[2].id = call.fieldsData[2].id
    /\ call.ret[3].id = call.fieldsData[1].id

\* parseErrorForRequiredFields has been applied
inferred == call.op = "parseErrorForRequiredFields" /\ call.status = "done"

\* no string of the payload e says that something is required
saysNothing(e) ==
    LET silent(v) == v.t # "str" \/ ~includes(toLowerCase(v.s), <<"r","e","q","u","i","r","e","d">>)
    IN \/ e.t \notin {"str", "obj"}
       \/ e.t = "str" /\ silent(e)
       \/ /\ e.t = "obj"
          /\ e.errors.t = "map" => \A k \in 1..Len(e.errors.e) : silent(e.errors.e[k].message)
          /\ e.errorMessages.t = "arr" => \A k \in 1..Len(e.errorMessages.a) : silent(e.errorMessages.a[k])

\* the id, name, type, required flag and allowed values of the fields of a list
summaryOf(fields) ==
    [k \in 1..Len(fields) |-> <<fields[k].id, fields[k].name, fields[k].type, fields[k].required, fields[k].allowedValues>>]

QuarterFieldsGetEightQuarters ==
    inferred =>
        \A k \in 1..Len(call.ret) :
            includes(toLowerCase(call.ret[k].name), S_quarter) =>
                /\ call.ret[k].allowedValues.t = "arr"
                /\ \A q \in 1..8 : quartersFrom(now.year).a[q] \in Range(call.ret[k].allowedValues.a)

\* C12: whenever discoverFields returns a mapping, its fields list is not
\* empty, whatever the outcomes of the metadata request and of the test
\* creation request.
DiscoveryNeverEmpty ==
    (call.op = "discoverFields" /\ call.at = "returned" /\ call.ret # Null) => Len(call.ret.fields) > 0

\* the pattern extractor yields, for the field at position j alone, a value
\* that reaches the threshold of the field: the confidenceThreshold of its
\* configuration, or globalConfidenceThreshold when it has none
patternAcceptable(j) ==
    LET floor == IF configAt(j) = Undefined THEN preferences.globalConfidenceThreshold ELSE configAt(j).confidenceThreshold
        reaches(p) == ~p.threw /\ Len(p.out) > 0 /\ p.out[1].confidence >= floor
    IN reaches(extractWithPatterns(description, <<jiraFields[j]>>, now))

\* C21: when the AI call made for a field fails, the pattern extractor is
\* still invoked for that field, and the field is in manualFields only if
\* the pattern extractor yields no acceptable candidate for it.
AIFailureDowngradesToPatterns ==
    \A j \in 1..Len(jiraFields) :
        (idAt(j) \in Range(warnings) /\ "ai" \in extractorsOf(idAt(j))) =>
            /\ "pattern" \in extractorsOf(idAt(j))
            /\ idAt(j) \in Range(manualFields) => ~patternAcceptable(j)

\* the positions in the field list of the AI calls of the run, in the order
\* of the calls
aiCallPositions ==
    LET made == SelectSeq(calls, LAMBDA c : c.extractor = "ai")
    IN [k \in 1..Len(made) |-> Least({j \in 1..Len(jiraFields) : idAt(j) = made[k].fieldId} \cup {Len(jiraFields) + 1})]

\* the effective method of the field at position j is 'ai': by its
\* configuration when it is extracted under one, by defaultMethod when it is
\* required and has none
effectiveMethodAI(j) ==
    \/ extracts(j) /\ configAt(j).extractionMethod = "ai"
    \/ usesDefaults(j) /\ preferences.defaultMethod = "ai"

\* the rule of C22 for the positions of the AI calls made so far
sequential(positions) ==
    /\ \A k \in 1..Len(positions) :
        /\ positions[k] \in 1..Len(jiraFields)
        /\ effectiveMethodAI(positions[k])
        /\ aiProvider /\ apiKey
        /\ positions[k] < i \/ (positions[k] = i /\ pc \in {"awaitConfigured", "awaitDefaults"})
    /\ \A k, l \in 1..Len(positions) : k < l => positions[k] < positions[l]
    /\ pc \in {"awaitConfigured", "awaitDefaults"} =>
        /\ Len(positions) > 0 /\ positions[Len(positions)] = i
        /\ \A j \in 1..(i - 1) :
            (jiraFields[j].required \/ configAt(j) # Undefined) => Cardinality(bucketsOf(idAt(j))) = 1

\* C22: within a run the AI provider is called only for fields whose
\* effective method is 'ai' while a provider and a key are supplied, at most
\* once per field, in the order of the field list, and only once every
\* earlier field has been classified: at most one call is in flight.
AICallsAreSequential ==
    \/ calls = <<>> /\ pc \notin {"awaitConfigured", "awaitDefaults"}
    \/ sequential(aiCallPositions)

\* the provider is being called for the second field after its call for the
\* first field failed
AICallsAreSequentialWitness ==
    /\ pc \in {"awaitConfigured", "awaitDefaults"}
    /\ i = 2
    /\ aiCallPositions = <<1, 2>>
    /\ warnings = <<idAt(1)>>

\* extractFieldValues has been applied and has returned a result
legacyReturned == call.op = "extractFieldValues" /\ call.status = "done" /\ ~call.ret.threw

\* the bulk provider call of the legacy path was made and threw
bulkCallFailed == call.provider /\ call.key /\ extractWithAI(call.response).threw

\* the entries of the returned extractedFields that the extractor m produced
entriesBy(m) == SelectSeq(call.ret.extractedFields, LAMBDA e : e.extractionMethod = m)

\* C23: extractFieldValues never throws because of the provider; when the
\* bulk AI call throws, extractedFields is the pattern extraction over the
\* whole field list; when it succeeds, the pattern entries are those of the
\* fields without AI entry and no field id has both an AI and a pattern entry.
LegacyFallsBackToPatterns ==
    (call.op = "extractFieldValues" /\ call.status = "done") =>
        /\ ~call.ret.threw
        /\ bulkCallFailed => call.ret.extractedFields = extractWithPatterns(call.description, call.fields, now).out
        /\ (call.provider /\ call.key /\ ~bulkCallFailed) =>
            /\ entriesBy("ai") = extractWithAI(call.response).out
            /\ \A a \in Range(entriesBy("ai")), b \in Range(entriesBy("pattern")) : a.fieldId # b.fieldId

\* C28: every pattern entry of extractFieldValues carries the id of a field
\* of the list, and a required field without AI entry for which the pattern
\* extractor finds a value is not in missingFields.
PatternEntriesCarryFieldIds ==
    legacyReturned =>
        /\ \A e \in Range(entriesBy("pattern")) : \E k \in 1..Len(call.fields) : call.fields[k].id = e.fieldId
        /\ \A k \in 1..Len(call.fields) :
            (/\ call.fields[k].required
             /\ \A a \in Range(entriesBy("ai")) : a.fieldId # call.fields[k].id
             /\ extractWithPatterns(call.description, <<call.fields[k]>>, now).out # <<>>) =>
                call.fields[k].id \notin Range(call.ret.missingFields)

\* the field at position j is eligible: required by the target system or
\* present in the per-field configs
eligible(j) == jiraFields[j].required \/ configAt(j) # Undefined

\* the loop has entered the iteration of position j
entered(j) == j \in 1..Len(jiraFields) /\ (j < i \/ (j = i /\ pc \in {"awaitConfigured", "awaitDefaults"}))

RECURSIVE alone(_, _, _)
alone(f, snapshot, answers) ==
    IF f.pc = "returned" THEN f.result
    ELSE IF f.pc = "await" THEN alone(processField(f, snapshot, Head(answers)), snapshot, Tail(answers))
    ELSE alone(processField(f, snapshot, [k |-> "error"]), snapshot, answers)

\* the frame of f at line 55, before the first iteration
atStart(f) ==
    [f EXCEPT !.pc = "loop", !.i = 1, !.autoApplied = <<>>, !.requiresConfirmation = <<>>, !.manualFields = <<>>,
              !.skippedFields = <<>>, !.totalFields = 0, !.autoAppliedCount = 0, !.confirmationCount = 0,
              !.manualCount = 0, !.skippedCount = 0, !.answers = <<>>, !.overlapped = {}, !.result = [status |-> "pending"]]

\* C25: when two runs are interleaved at their AI await points and the
\* stored configuration is edited while a run is suspended, each run returns
\* the result it would return alone with the configuration as read at its
\* start.
RunsAreIsolated ==
    call.op = "concurrent" =>
        \A r \in DOMAIN call.runs :
            call.runs[r].pc = "returned" =>
                call.runs[r].result = alone(atStart(call.runs[r]),
                                            [fieldConfigs |-> call.runs[r].fieldConfigs, preferences |-> call.runs[r].preferences],
                                            call.runs[r].answers)

\* both runs have returned; while it was suspended the first saw the second
\* run and an edit of the configuration, and it classified a field after
\* that under the configuration it had read, which is no longer the stored one
RunsAreIsolatedWitness ==
    /\ call.op = "concurrent"
    /\ call.runs["first"].pc = "returned" /\ call.runs["second"].pc = "returned"
    /\ call.runs["first"].overlapped = {"run", "edit"}
    /\ call.runs["first"].fieldConfigs # call.stored.fieldConfigs
    /\ call.runs["first"].fieldConfigs # call.runs["second"].fieldConfigs
    /\ DOMAIN call.runs["first"].result.autoApplied # {}
    /\ call.runs["second"].result.skippedFields # <<>>

\* C26: a configured field with mode auto-apply is never held for
\* confirmation when requireConfirmationForAll is off: once the loop has
\* passed it, it is either in autoApplied or in manualFields.
AutoApplyNeverConfirms ==
    \A j \in 1..Len(jiraFields) :
        (extracts(j) /\ configAt(j).extractionMode = "auto-apply" /\ ~preferences.requireConfirmationForAll) =>
            /\ idAt(j) \notin DOMAIN requiresConfirmation
            /\ Processed(j) => bucketsOf(idAt(j)) \in {{"auto"}, {"manual"}}
            /\ Returned => returnedBucketsOf(idAt(j)) \in {{"auto"}, {"manual"}}

\* requireConfirmationForAll is off and the result leaves an auto-apply field
\* to the user although the pattern extractor, invoked without failure,
\* finds a value for it: the value is below the threshold of the field
AutoApplyNeverConfirmsWitness ==
    /\ Returned
    /\ ~preferences.requireConfirmationForAll
    /\ \E k \in 1..Len(jiraFields) :
        /\ extracts(k) /\ configAt(k).extractionMode = "auto-apply"
        /\ returnedBucketsOf(idAt(k)) = {"manual"}
        /\ idAt(k) \notin Range(warnings)
        /\ "pattern" \in extractorsOf(idAt(k))
        /\ extractWithPatterns(description, <<jiraFields[k]>>, now).out # <<>>

\* the extraction of the current field, whose provider call is awaited, when
\* the call settles with response
extractionOn(response) ==
    IF pc = "awaitConfigured"
    THEN extractSingleFieldValue(description, jiraField, config, aiProvider, apiKey, response, now)
    ELSE extractSingleFieldWithDefaults(description, jiraField, preferences, aiProvider, apiKey, response, now)

\* C27: the value the engine takes from an AI response for the field it
\* called the provider for, and stores in autoApplied or
\* requiresConfirmation, comes from an entry whose fieldId is the id of that
\* field.
AIValuesBelongToTheirField ==
    pc \in {"awaitConfigured", "awaitDefaults"} =>
        \A response \in AIResponses(jiraField.id) :
            (/\ extractionOn(response).value # Null
             /\ extractionOn(response).value.extractionMethod = "ai"
             /\ (IF pc = "awaitConfigured" THEN configuredBucket(extractionOn(response).value, config, preferences)
                 ELSE defaultsBucket(extractionOn(response).value, preferences)) \in {"auto", "confirmation"}) =>
                extractionOn(response).value.fieldId = jiraField.id

\* C29: for the priority field with allowed values, the value the priority
\* rule produces is one of the allowed values, and a priority word that is
\* the name of an allowed value, whatever the case, gives that allowed
\* value: 'high' gives 'High'.
PriorityValueIsAllowed ==
    patternsApplied(<<priorityField>>) =>
        \A e \in Range(call.ret.out) :
            /\ e.value \in Range(priorityField.allowedValues.a)
            /\ \A v \in Range(priorityField.allowedValues.a) :
                toLowerCase(v.s) = FirstWordIn(toLowerCase(call.description), PriorityVocabulary) => e.value = v

\* C30: categorizeFields partitions its input: every field of the list is
\* in exactly one of commonly_used, project_specific, optional_standard and
\* system_fields.
CategoriesPartitionFields ==
    (call.op = "categorizeFields" /\ call.status = "done") =>
        \A k \in 1..Len(call.fields) :
            Cardinality({c \in DOMAIN call.ret : call.fields[k] \in Range(call.ret[c])}) = 1

====
